---- MODULE Spec2Model ----
(***************************************************************************)
(* Soccer Pool Tracker: the scoring rules engine (js/rules-engine.js), the *)
(* Wikipedia scraper pipeline with its data integrity gate                 *)
(* (scripts/scrape-fbref.js), the API update scripts                       *)
(* (scripts/update-data.js and its earlier variant) and the payout cards   *)
(* of the Winningz view (js/views.js).                                     *)
(*                                                                         *)
(* Specifications:                                                         *)
(*   SpecPure   one call of an exported or pipeline function               *)
(*   Spec       scraper runs, one loop iteration per step, any content     *)
(*   SpecIdem   scraper runs over pages that stay as they are              *)
(*   SpecMerge  one scraper run over pages with repeated names             *)
(*   SpecFetch  scraper runs, split at every request, redirect and sleep   *)
(*   SpecFetchLive  the same with a redirect cycle, under weak fairness     *)
(*   SpecApi    runs of the API update scripts, with or without the key    *)
(***************************************************************************)
EXTENDS Integers, Sequences, FiniteSets, TLC

VARIABLES
    fn,        \* pure-function harness: the function under evaluation
    arg,       \* its argument(s)
    res,       \* its return value once it has returned
    returned,  \* whether it has returned
    resultsFile,      \* data/results.json, the persisted snapshot
    rosters,          \* data/rosters.json
    now,              \* the clock read by new Date()
    pc,               \* where the running script is
    idx,              \* position in the page list of the current phase
    previousResults,  \* main: the snapshot loaded for the gate
    teamPoints,       \* main: rosterName -> league points
    uefaPoints,       \* main: rosterName -> UEFA phase points
    playerGoals,      \* main: rosterName -> goals
    urlToPlayers,     \* main, phase 2.5: the club pages to fetch, with their players
    fetched,          \* the documents fetchPage was called for in this run, in order
    lastFetchOk,      \* whether the latest fetchPage resolved
    results,          \* main: the computed results object
    validation,       \* main: <<what validateResults returned>>, <<>> before the call
    exitCode,         \* the exit status of the process, -1 while it runs
    web,              \* the pages as served, where a behaviour holds them fixed
    awaiting,         \* what the script is suspended on: "nothing", "response", "timer"
    requestCount,     \* requestCount: the requests issued by this process
    redirects,        \* fetchPage: redirects followed for the current document
    elapsed,          \* whether a delay has run since the latest request completed
    delayedStart,     \* whether such a delay had run when the latest request started
    script,           \* the pipeline script that is running
    apiKey,           \* whether API_FOOTBALL_KEY is set
    leagueStandings,  \* update-data main: team -> league points
    uefaStandings,    \* update-data main: team -> UEFA phase points
    goalMap           \* update-data main: player -> goals (its playerGoals)

pureVars == <<fn, arg, res, returned>>
scraperVars ==
    <<resultsFile, rosters, now, pc, idx, previousResults, teamPoints, uefaPoints,
      playerGoals, urlToPlayers, fetched, lastFetchOk, results, validation, exitCode>>
netVars == <<awaiting, requestCount, redirects, elapsed, delayedStart>>
apiVars == <<script, apiKey, leagueStandings, uefaStandings, goalMap>>
scraperLocals ==
    <<previousResults, teamPoints, uefaPoints, playerGoals, urlToPlayers, fetched,
      lastFetchOk, validation>>
otherVars == <<web, netVars, apiVars>>
vars == <<pureVars, scraperVars, otherVars>>

----------------------------------------------------------------------------
(* Bounds of the model *)

\* largest points value of a team record / snapshot total drawn as input
MaxPts == 2
\* largest day number used for goal dates and active_from_date
MaxDay == 2
\* largest number a scraped table cell holds (points, goals)
MaxScraped == 1
\* number of scraper runs in a behaviour
MaxRuns == 3
\* redirects followed for one document; fetchPage itself sets no limit
MaxRedirects == 1

----------------------------------------------------------------------------
(* JavaScript values that a total can hold *)

Num(n) == [t |-> "number", n |-> n]
JsNull == [t |-> "null", n |-> 0]
JsUndefined == [t |-> "undefined", n |-> 0]
JsNaN == [t |-> "NaN", n |-> 0]
JsInfinity == [t |-> "Infinity", n |-> 0]

\* x == null  (true of null and undefined)
LooseNull(v) == v.t \in {"null", "undefined"}

\* ToNumber(v): null -> 0, undefined -> NaN
ToNumber(v) ==
    CASE v.t = "null" -> Num(0)
      [] v.t = "undefined" -> JsNaN
      [] OTHER -> v

\* isNaN(v)
isNaN(v) == ToNumber(v).t = "NaN"

\* a < b on JavaScript values (false as soon as one side is NaN)
JsLess(a, b) ==
    LET x == ToNumber(a)
        y == ToNumber(b)
    IN  CASE x.t = "NaN" \/ y.t = "NaN" -> FALSE
          [] x.t = "Infinity" -> FALSE
          [] y.t = "Infinity" -> TRUE
          [] OTHER -> x.n < y.n

\* v || 0
OrZero(v) ==
    CASE v.t = "number" /\ v.n # 0 -> v
      [] v.t = "Infinity" -> v
      [] OTHER -> Num(0)

\* JSON.parse(JSON.stringify(v)) of one number-valued property:
\* NaN and Infinity are written as null, an undefined property is dropped
JsonValue(v) ==
    CASE v.t \in {"NaN", "Infinity"} -> JsNull
      [] OTHER -> v

RECURSIVE SumSeq(_)
SumSeq(s) == IF s = <<>> THEN 0 ELSE Head(s) + SumSeq(Tail(s))

Range(s) == {s[i] : i \in 1..Len(s)}

----------------------------------------------------------------------------
(* Rules engine: cup milestone bonuses *)

DOMESTIC_CUP_MILESTONES ==
    [m \in {"winner", "runner_up", "semifinal"} |->
        CASE m = "winner" -> 15 [] m = "runner_up" -> 12 [] OTHER -> 8]

UEFA_CUP_MILESTONES ==
    [c \in {"champions_league", "europa_league", "conference_league"} |->
        [m \in {"winner", "runner_up", "semifinal"} |->
            IF c = "champions_league"
            THEN (CASE m = "winner" -> 20 [] m = "runner_up" -> 15 [] OTHER -> 10)
            ELSE (CASE m = "winner" -> 12 [] m = "runner_up" -> 10 [] OTHER -> 6)]]

\* A cup progress object; isNull stands for null/undefined, "" for a missing field
NoCup == [isNull |-> TRUE, competition |-> "", milestone |-> ""]
Cup(c, m) == [isNull |-> FALSE, competition |-> c, milestone |-> m]

\* a plausible slip: the bonuses of the lower milestones are added as well
StackedDomesticCupBonus(cupProgress) ==
    IF cupProgress.isNull \/ cupProgress.milestone = "" THEN 0
    ELSE CASE cupProgress.milestone = "winner" -> 15 + 12 + 8
           [] cupProgress.milestone = "runner_up" -> 12 + 8
           [] cupProgress.milestone = "semifinal" -> 8
           [] OTHER -> 0

getDomesticCupBonus(cupProgress) ==
    IF cupProgress.isNull \/ cupProgress.milestone = "" THEN 0
    ELSE IF cupProgress.milestone \in DOMAIN DOMESTIC_CUP_MILESTONES
         THEN DOMESTIC_CUP_MILESTONES[cupProgress.milestone]
         ELSE 0

getUefaCupBonus(cupProgress) ==
    IF cupProgress.isNull \/ cupProgress.competition = "" \/ cupProgress.milestone = ""
    THEN 0
    ELSE IF cupProgress.competition \notin DOMAIN UEFA_CUP_MILESTONES THEN 0
         ELSE LET tier == UEFA_CUP_MILESTONES[cupProgress.competition]
              IN  IF cupProgress.milestone \in DOMAIN tier
                  THEN tier[cupProgress.milestone]
                  ELSE 0

\* a plausible slip: the UEFA cup bonus is left out of the uefa_points breakdown
TeamPointsBonusNotInBreakdown(teamData) ==
    LET league == OrZero(teamData.league_points).n
        uefaPhase == OrZero(teamData.uefa_league_phase_points).n
        domesticBonus == getDomesticCupBonus(teamData.domestic_cup)
        uefaBonus == getUefaCupBonus(teamData.uefa_cup)
    IN  [total |-> league + uefaPhase + domesticBonus + uefaBonus,
         league_points |-> league,
         uefa_points |-> uefaPhase,
         domestic_cup_points |-> domesticBonus]

calculateTeamPoints(teamData) ==
    LET league == OrZero(teamData.league_points).n
        uefaPhase == OrZero(teamData.uefa_league_phase_points).n
        domesticBonus == getDomesticCupBonus(teamData.domestic_cup)
        uefaBonus == getUefaCupBonus(teamData.uefa_cup)
    IN  [total |-> league + uefaPhase + domesticBonus + uefaBonus,
         league_points |-> league,
         uefa_points |-> uefaPhase + uefaBonus,
         domestic_cup_points |-> domesticBonus]

----------------------------------------------------------------------------
(* Rules engine: goal eligibility *)

SUPERCUP_KEYWORDS ==
    <<"super cup", "supercup", "community shield", "supercopa",
      "supercoppa", "trophée des champions", "dfl-supercup">>

UpperChars == "ABCDEFGHIJKLMNOPQRSTUVWXYZÉ"
LowerChars == "abcdefghijklmnopqrstuvwxyzé"

\* String.prototype.toLowerCase, one character
LowerChar(c) ==
    IF \E i \in 1..Len(UpperChars) : SubSeq(UpperChars, i, i) = c
    THEN LET i == CHOOSE j \in 1..Len(UpperChars) : SubSeq(UpperChars, j, j) = c
         IN  SubSeq(LowerChars, i, i)
    ELSE c

RECURSIVE toLowerCase(_)
toLowerCase(str) ==
    IF Len(str) = 0 THEN ""
    ELSE LowerChar(SubSeq(str, 1, 1)) \o toLowerCase(SubSeq(str, 2, Len(str)))

\* String.prototype.includes
includes(str, kw) ==
    \E i \in 1..(Len(str) - Len(kw) + 1) : SubSeq(str, i, i + Len(kw) - 1) = kw

isSupercup(competitionName) ==
    LET lower == toLowerCase(competitionName)
    IN  \E k \in 1..Len(SUPERCUP_KEYWORDS) : includes(lower, SUPERCUP_KEYWORDS[k])

\* a plausible slip: a goal on the active_from_date itself is left out
GoalCountsAfterOnly(goal, activeFromDate) ==
    /\ goal.date > activeFromDate
    /\ goal.type # "penalty_shootout"
    /\ goal.type # "own_goal"
    /\ ~isSupercup(goal.competition)

\* the filter predicate of calculatePlayerGoals; dates are day numbers
GoalCounts(goal, activeFromDate) ==
    /\ ~(goal.date < activeFromDate)
    /\ goal.type # "penalty_shootout"
    /\ goal.type # "own_goal"
    /\ ~isSupercup(goal.competition)

RECURSIVE calculatePlayerGoals(_, _)
calculatePlayerGoals(goals, activeFromDate) ==
    IF goals = <<>> THEN 0
    ELSE (IF GoalCounts(Head(goals), activeFromDate) THEN 1 ELSE 0)
         + calculatePlayerGoals(Tail(goals), activeFromDate)

----------------------------------------------------------------------------
(* Rules engine: payouts *)

Alphabet == "abcdefghijklmnopqrstuvwxyz"

\* the place of a letter in the alphabet, whatever its case
LetterIndex(c) ==
    CHOOSE i \in 1..Len(Alphabet) : SubSeq(Alphabet, i, i) = LowerChar(c)

\* the letters of a and b compared one by one, case set aside; a prefix
\* comes before the longer string
RECURSIVE CompareLetters(_, _)
CompareLetters(a, b) ==
    IF Len(a) = 0 THEN (IF Len(b) = 0 THEN 0 ELSE -1)
    ELSE IF Len(b) = 0 THEN 1
    ELSE LET x == LetterIndex(SubSeq(a, 1, 1))
             y == LetterIndex(SubSeq(b, 1, 1))
         IN  IF x < y THEN -1
             ELSE IF x > y THEN 1
             ELSE CompareLetters(SubSeq(a, 2, Len(a)), SubSeq(b, 2, Len(b)))

\* names with the same letters: the first difference of case decides, the
\* lower-case letter first
RECURSIVE CompareCase(_, _)
CompareCase(a, b) ==
    IF Len(a) = 0 \/ Len(b) = 0 THEN 0
    ELSE LET x == SubSeq(a, 1, 1)
             y == SubSeq(b, 1, 1)
         IN  IF x = y THEN CompareCase(SubSeq(a, 2, Len(a)), SubSeq(b, 2, Len(b)))
             ELSE IF x = LowerChar(x) THEN -1 ELSE 1

\* String.prototype.localeCompare on names made of unaccented letters
localeCompare(a, b) ==
    LET letters == CompareLetters(a, b)
    IN  IF letters # 0 THEN letters ELSE CompareCase(a, b)

\* [...standings].sort((a, b) => b.total - a.total), a stable sort
RECURSIVE InsertByTotal(_, _)
InsertByTotal(sorted, x) ==
    IF sorted = <<>> THEN <<x>>
    ELSE IF Head(sorted).total < x.total
         THEN <<x>> \o sorted
         ELSE <<Head(sorted)>> \o InsertByTotal(Tail(sorted), x)

RECURSIVE SortByTotal(_)
SortByTotal(standings) ==
    IF standings = <<>> THEN <<>>
    ELSE InsertByTotal(SortByTotal(SubSeq(standings, 1, Len(standings) - 1)),
                       standings[Len(standings)])

\* [...tiedForFirst].sort((a, b) => a.participant.localeCompare(b.participant))
RECURSIVE InsertAlphabetical(_, _)
InsertAlphabetical(sorted, x) ==
    IF sorted = <<>> THEN <<x>>
    ELSE IF localeCompare(x.participant, Head(sorted).participant) < 0
         THEN <<x>> \o sorted
         ELSE <<Head(sorted)>> \o InsertAlphabetical(Tail(sorted), x)

RECURSIVE SortAlphabetical(_)
SortAlphabetical(tied) ==
    IF tied = <<>> THEN <<>>
    ELSE InsertAlphabetical(SortAlphabetical(SubSeq(tied, 1, Len(tied) - 1)), tied[Len(tied)])

\* payouts.find(p => p.participant === participant).payout = amount
SetPayout(payouts, participant, amount) ==
    LET i == CHOOSE j \in 1..Len(payouts) :
                 /\ payouts[j].participant = participant
                 /\ \A k \in 1..(j - 1) : payouts[k].participant # participant
    IN  [payouts EXCEPT ![i].payout = amount]

\* sorted.map(s => ({ participant: s.participant, payout: 0 }))
ZeroPayouts(sorted) ==
    [i \in 1..Len(sorted) |-> [participant |-> sorted[i].participant, payout |-> 0]]

\* a plausible slip: the runner-up is forgotten
ClearFirstPayoutsWinnerOnly(sorted) ==
    [ZeroPayouts(sorted) EXCEPT ![1].payout = 250]

\* the final else branch: a clear first place
ClearFirstPayouts(sorted) ==
    LET first == [ZeroPayouts(sorted) EXCEPT ![1].payout = 250]
    IN  IF Len(first) > 1 THEN [first EXCEPT ![2].payout = 50] ELSE first

\* a plausible slip: the best participant below the tied pair still gets 50
TwoWayTiePayoutsWithRunnerUp(sorted, topScore) ==
    [i \in 1..Len(sorted) |->
        [participant |-> sorted[i].participant,
         payout |-> IF sorted[i].total = topScore THEN 150
                    ELSE IF i = 3 THEN 50 ELSE 0]]

\* the branch tiedForFirst.length === 2
TwoWayTiePayouts(sorted, topScore) ==
    LET payouts == ZeroPayouts(sorted)
    IN  [i \in 1..Len(payouts) |->
            IF \E j \in 1..Len(sorted) :
                   /\ sorted[j].participant = payouts[i].participant
                   /\ sorted[j].total = topScore
            THEN [payouts[i] EXCEPT !.payout = 150]
            ELSE payouts[i]]

\* a plausible slip: the tied leader listed first wins, not the first by name
MultiWayTiePayoutsFirstListed(sorted, topScore) ==
    LET winner == SetPayout(ZeroPayouts(sorted), sorted[1].participant, 250)
        nonTied == SelectSeq(sorted, LAMBDA s : s.total < topScore)
    IN  IF Len(nonTied) > 0 THEN SetPayout(winner, nonTied[1].participant, 50) ELSE winner

\* the branch tiedForFirst.length >= 3
MultiWayTiePayouts(sorted, topScore) ==
    LET tiedForFirst == SelectSeq(sorted, LAMBDA s : s.total = topScore)
        alphabetical == SortAlphabetical(tiedForFirst)
        winnerId == alphabetical[1].participant
        winner == SetPayout(ZeroPayouts(sorted), winnerId, 250)
        nonTied == SelectSeq(sorted, LAMBDA s : s.total < topScore)
    IN  IF Len(nonTied) > 0 THEN SetPayout(winner, nonTied[1].participant, 50) ELSE winner

calculatePayouts(standings) ==
    IF Len(standings) = 0 THEN <<>>
    ELSE LET sorted == SortByTotal(standings)
             topScore == sorted[1].total
             tiedForFirst == SelectSeq(sorted, LAMBDA s : s.total = topScore)
         IN  IF Len(tiedForFirst) = 2 THEN TwoWayTiePayouts(sorted, topScore)
             ELSE IF Len(tiedForFirst) >= 3 THEN MultiWayTiePayouts(sorted, topScore)
             ELSE ClearFirstPayouts(sorted)

\* a plausible slip: standings.sort(...) without the copy sorts the caller's array
StandingsSortedInPlace(standings) == SortByTotal(standings)

\* the array the caller passed, after calculatePayouts has returned: the sort
\* runs on the copy [...standings], and the payouts are new objects
StandingsAfterPayouts(standings) == standings

\* views.js computePoolPayouts: the payout cards the Winningz view shows
computePoolPayouts(pool, totalKey) ==
    IF Len(pool) = 0 THEN <<>>
    ELSE LET sorted == SortByTotal([i \in 1..Len(pool) |->
                           [participant |-> pool[i].participant, total |-> pool[i][totalKey]]])
             topScore == sorted[1].total
             tiedForFirst == SelectSeq(sorted, LAMBDA e : e.total = topScore)
         IN  IF Len(tiedForFirst) >= 2
             THEN [i \in 1..Len(tiedForFirst) |->
                      [participant |-> tiedForFirst[i].participant, total |-> tiedForFirst[i].total,
                       payout |-> 300 \div Len(tiedForFirst), place |-> "1st (T)", isTied |-> TRUE]]
             ELSE << [participant |-> sorted[1].participant, total |-> sorted[1].total,
                      payout |-> 250, place |-> "1st", isTied |-> FALSE] >>
                  \o (IF Len(sorted) > 1
                      THEN << [participant |-> sorted[2].participant, total |-> sorted[2].total,
                               payout |-> 50, place |-> "2nd", isTied |-> FALSE] >>
                      ELSE <<>>)

----------------------------------------------------------------------------
(* Pool results: ranking and the two compute phases *)

\* the total a pool entry is ranked by (total_points or total_goals)
TotalOf(entry) ==
    IF "total_points" \in DOMAIN entry THEN entry.total_points ELSE entry.total_goals

\* one step of a stable descending sort: x goes after every entry that does
\* not compare below it (comparator b.total - a.total)
RECURSIVE InsertDesc(_, _)
InsertDesc(sorted, x) ==
    IF sorted = <<>> THEN <<x>>
    ELSE IF TotalOf(Head(sorted)).n < TotalOf(x).n
         THEN <<x>> \o sorted
         ELSE <<Head(sorted)>> \o InsertDesc(Tail(sorted), x)

RECURSIVE SortDesc(_)
SortDesc(pool) ==
    IF pool = <<>> THEN <<>>
    ELSE InsertDesc(SortDesc(SubSeq(pool, 1, Len(pool) - 1)), pool[Len(pool)])

\* a plausible slip: entries with equal totals share the rank of the first
AssignRanksSharingTies(pool) ==
    LET sorted == SortDesc(pool)
    IN  [i \in 1..Len(sorted) |->
            [sorted[i] EXCEPT !.rank =
                1 + Cardinality({j \in 1..Len(sorted) : TotalOf(sorted[j]).n > TotalOf(sorted[i]).n})]]

\* a plausible slip: the comparator the wrong way round, ties turned with it
AssignRanksAscending(pool) ==
    LET sorted == SortDesc(pool)
    IN  [i \in 1..Len(sorted) |-> [sorted[Len(sorted) + 1 - i] EXCEPT !.rank = i]]

\* pool.sort(...); pool.forEach((e, i) => { e.rank = i + 1; })
AssignRanks(pool) ==
    LET sorted == SortDesc(pool)
    IN  [i \in 1..Len(sorted) |-> [sorted[i] EXCEPT !.rank = i]]

EmptyTeamData ==
    [league_points |-> JsUndefined, uefa_league_phase_points |-> JsUndefined,
     domestic_cup |-> NoCup, uefa_cup |-> NoCup]

\* map[key] || dflt
Lookup(map, key, dflt) == IF key \in DOMAIN map THEN map[key] ELSE dflt

\* computeResults: the team_pool entry of one roster, before ranking
TeamEntry(roster, apiData) ==
    LET scored == [i \in 1..Len(roster.teams) |->
                      calculateTeamPoints(Lookup(apiData.teams, roster.teams[i], EmptyTeamData))]
    IN  [participant |-> roster.participant,
         total_points |-> Num(SumSeq([i \in 1..Len(scored) |-> scored[i].total])),
         rank |-> 0,
         teams |-> [i \in 1..Len(scored) |->
                       [name |-> roster.teams[i],
                        league_points |-> scored[i].league_points,
                        uefa_points |-> scored[i].uefa_points,
                        domestic_cup_points |-> scored[i].domestic_cup_points]]]

\* computeResults: the goals_pool entry of one roster, before ranking
GoalsEntry(roster, apiData) ==
    LET counts == [i \in 1..Len(roster.players) |->
                      calculatePlayerGoals(Lookup(apiData.players, roster.players[i].name, <<>>),
                                           roster.players[i].active_from_date)]
    IN  [participant |-> roster.participant,
         total_goals |-> Num(SumSeq(counts)),
         rank |-> 0,
         players |-> [i \in 1..Len(counts) |->
                         [name |-> roster.players[i].name, goals |-> counts[i]]]]

computeResults(rostersJson, apiData, time) ==
    [last_updated |-> time,
     season |-> rostersJson.pool_metadata.season,
     team_pool |-> AssignRanks([r \in 1..Len(rostersJson.rosters) |->
                                   TeamEntry(rostersJson.rosters[r], apiData)]),
     goals_pool |-> AssignRanks([r \in 1..Len(rostersJson.rosters) |->
                                    GoalsEntry(rostersJson.rosters[r], apiData)])]

\* scraper, phase 3: the team_pool entry of one roster, before ranking
ScraperTeamEntry(roster, leaguePts, uefaPts) ==
    LET league == [i \in 1..Len(roster.teams) |-> Lookup(leaguePts, roster.teams[i], 0)]
        uefa == [i \in 1..Len(roster.teams) |-> Lookup(uefaPts, roster.teams[i], 0)]
    IN  [participant |-> roster.participant,
         total_points |-> Num(SumSeq([i \in 1..Len(roster.teams) |-> league[i] + uefa[i]])),
         rank |-> 0,
         teams |-> [i \in 1..Len(roster.teams) |->
                       [name |-> roster.teams[i], league_points |-> league[i],
                        uefa_points |-> uefa[i], domestic_cup_points |-> 0]]]

\* a plausible slip: only the players found in a source are listed
ScraperGoalsEntryListingMatched(roster, goalsMap) ==
    LET matched == SelectSeq(roster.players, LAMBDA pl : pl.name \in DOMAIN goalsMap)
    IN  [participant |-> roster.participant,
         total_goals |-> Num(SumSeq([i \in 1..Len(matched) |-> goalsMap[matched[i].name]])),
         rank |-> 0,
         players |-> [i \in 1..Len(matched) |->
                         [name |-> matched[i].name, goals |-> goalsMap[matched[i].name]]]]

\* scraper, phase 3: the goals_pool entry of one roster, before ranking
ScraperGoalsEntry(roster, goalsMap) ==
    LET goals == [i \in 1..Len(roster.players) |->
                     Lookup(goalsMap, roster.players[i].name, 0)]
    IN  [participant |-> roster.participant,
         total_goals |-> Num(SumSeq(goals)),
         rank |-> 0,
         players |-> [i \in 1..Len(goals) |->
                         [name |-> roster.players[i].name, goals |-> goals[i]]]]

\* scraper, phases 3 and "assign ranks": the results object
ScraperCompute(rostersJson, leaguePts, uefaPts, goalsMap, time) ==
    [last_updated |-> time,
     season |-> rostersJson.pool_metadata.season,
     team_pool |-> AssignRanks([r \in 1..Len(rostersJson.rosters) |->
                      ScraperTeamEntry(rostersJson.rosters[r], leaguePts, uefaPts)]),
     goals_pool |-> AssignRanks([r \in 1..Len(rostersJson.rosters) |->
                      ScraperGoalsEntry(rostersJson.rosters[r], goalsMap)])]

----------------------------------------------------------------------------
(* Data integrity gate *)

\* results.json as read at the start of a run; exists = FALSE when the file
\* is missing or unreadable (previousResults stays null)
NoSnapshot ==
    [exists |-> FALSE, last_updated |-> 0, season |-> "",
     team_pool |-> <<>>, goals_pool |-> <<>>]

\* Rule B's test of one total: == null, isNaN, < 0
InvalidTotal(v) == LooseNull(v) \/ isNaN(v) \/ JsLess(v, Num(0))

\* Rule B over one pool: one error per entry whose total is invalid
RuleB(pool, what) ==
    LET errs == [i \in 1..Len(pool) |->
                    [rule |-> "B", pool |-> what, participant |-> pool[i].participant,
                     old |-> JsUndefined, new |-> TotalOf(pool[i])]]
    IN  SelectSeq(errs, LAMBDA e : InvalidTotal(e.new))

\* pool.find(e => e.participant === name): index of the first match, 0 if none
FindIndex(pool, name) ==
    IF \E i \in 1..Len(pool) : pool[i].participant = name
    THEN CHOOSE i \in 1..Len(pool) :
            /\ pool[i].participant = name
            /\ \A j \in 1..(i - 1) : pool[j].participant # name
    ELSE 0

\* a plausible slip: the comparison rejects an unchanged total as well
RuleARejectingEqual(newPool, prevPool, what) ==
    LET cand == [i \in 1..Len(prevPool) |->
                    LET at == FindIndex(newPool, prevPool[i].participant)
                    IN  [rule |-> "A", pool |-> what,
                         participant |-> prevPool[i].participant,
                         old |-> TotalOf(prevPool[i]),
                         new |-> IF at = 0 THEN JsUndefined ELSE TotalOf(newPool[at]),
                         found |-> at # 0]]
    IN  SelectSeq(cand, LAMBDA e : e.found /\ ~JsLess(e.old, e.new))

\* a plausible slip: the regression check is skipped
RuleASkipped(newPool, prevPool, what) == <<>>

\* Rule A over one pool: one error per previous entry whose participant is in
\* the new pool with a total below the previous one
RuleA(newPool, prevPool, what) ==
    LET cand == [i \in 1..Len(prevPool) |->
                    LET at == FindIndex(newPool, prevPool[i].participant)
                    IN  [rule |-> "A", pool |-> what,
                         participant |-> prevPool[i].participant,
                         old |-> TotalOf(prevPool[i]),
                         new |-> IF at = 0 THEN JsUndefined ELSE TotalOf(newPool[at]),
                         found |-> at # 0]]
    IN  SelectSeq(cand, LAMBDA e : e.found /\ JsLess(e.new, e.old))

validateResults(newResults, previous) ==
    LET errors ==
            RuleB(newResults.team_pool, "team")
            \o RuleB(newResults.goals_pool, "goals")
            \o (IF previous.exists
                THEN RuleA(newResults.team_pool, previous.team_pool, "team")
                ELSE <<>>)
            \o (IF previous.exists
                THEN RuleA(newResults.goals_pool, previous.goals_pool, "goals")
                ELSE <<>>)
    IN  [valid |-> Len(errors) = 0, errors |-> errors]

----------------------------------------------------------------------------
(* Scraper pipeline: configuration *)

\* the page lists, cut down to two league pages and one UEFA page
LEAGUE_PAGES == <<"L1", "L2">>
UEFA_PAGES == <<"U1">>

\* player -> club season page; P3 shares a page with P1, P4 has none
PLAYER_TEAM_MAP == [p \in {"P1", "P2", "P3"} |-> IF p = "P2" THEN "C2" ELSE "C1"]

\* the empty object {}
EmptyMap == [k \in {} |-> 0]

\* obj[key] = value
Put(map, key, value) == [k \in DOMAIN map \cup {key} |-> IF k = key THEN value ELSE map[k]]

\* the Set built from the rosters: rosterTeams
RosterTeams(r) ==
    UNION {Range(r.rosters[i].teams) : i \in 1..Len(r.rosters)}

\* the Set built from the rosters, in insertion order: rosterPlayers
RECURSIVE AppendNew(_, _)
AppendNew(seq, more) ==
    IF more = <<>> THEN seq
    ELSE AppendNew(IF Head(more) \in Range(seq) THEN seq ELSE Append(seq, Head(more)),
                   Tail(more))

RECURSIVE RosterPlayersFrom(_, _)
RosterPlayersFrom(r, i) ==
    IF i > Len(r.rosters) THEN <<>>
    ELSE AppendNew([j \in 1..Len(r.rosters[i].players) |-> r.rosters[i].players[j].name]
                   , <<>>) \o RosterPlayersFrom(r, i + 1)

RosterPlayers(r) == AppendNew(<<>>, RosterPlayersFrom(r, 1))

----------------------------------------------------------------------------
(* Scraper pipeline: name matching and the standings parser *)

\* roster name -> the names Wikipedia uses for it, in the order of the table
TEAM_ALIASES ==
    << [rosterName |-> "T1", aliases |-> <<"T1", "T1 FC">>],
       [rosterName |-> "T1 FC B", aliases |-> <<"T1 FC B">>] >>

KeptChars == "abcdefghijklmnopqrstuvwxyz0123456789 "

\* .replace(/[^a-z0-9\s]/g, '')
RECURSIVE KeepChars(_)
KeepChars(str) ==
    IF Len(str) = 0 THEN ""
    ELSE (IF includes(KeptChars, SubSeq(str, 1, 1)) THEN SubSeq(str, 1, 1) ELSE "")
         \o KeepChars(SubSeq(str, 2, Len(str)))

\* normalize, for names without accents and with single inner spaces
normalize(str) == KeepChars(toLowerCase(str))

\* the null of matchTeamName: as falsy as the empty string in
\* `rosterName && rosterTeams.has(rosterName)`
NoMatch == ""

\* matchTeamName for names without wiki artifacts: an exact match on an
\* alias or the roster name first, then an alias longer than 4 inside the name
\* the minimum length an alias must exceed to match as a substring
AliasThreshold == 4

matchTeamName(wikiName) ==
    LET wikiNorm == normalize(wikiName)
        exact == {i \in 1..Len(TEAM_ALIASES) :
                     \/ \E a \in 1..Len(TEAM_ALIASES[i].aliases) :
                            normalize(TEAM_ALIASES[i].aliases[a]) = wikiNorm
                     \/ normalize(TEAM_ALIASES[i].rosterName) = wikiNorm}
        partial == {i \in 1..Len(TEAM_ALIASES) :
                       \E a \in 1..Len(TEAM_ALIASES[i].aliases) :
                           LET aN == normalize(TEAM_ALIASES[i].aliases[a])
                           IN  Len(aN) > AliasThreshold /\ includes(wikiNorm, aN)}
        first(S) == CHOOSE i \in S : \A j \in S : i <= j
    IN  IF exact # {} THEN TEAM_ALIASES[first(exact)].rosterName
        ELSE IF partial # {} THEN TEAM_ALIASES[first(partial)].rosterName
        ELSE NoMatch

\* roster player -> the names Wikipedia uses, in the order of the table
PLAYER_ALIASES ==
    << [rosterName |-> "P1", aliases |-> <<"P1", "P. One">>],
       [rosterName |-> "P3", aliases |-> <<"P3">>] >>

\* matchPlayerName: an alias or the roster name equal after normalisation
matchPlayerName(wikiName) ==
    LET wikiNorm == normalize(wikiName)
        exact == {i \in 1..Len(PLAYER_ALIASES) :
                     \/ \E a \in 1..Len(PLAYER_ALIASES[i].aliases) :
                            normalize(PLAYER_ALIASES[i].aliases[a]) = wikiNorm
                     \/ normalize(PLAYER_ALIASES[i].rosterName) = wikiNorm}
    IN  IF exact # {} THEN PLAYER_ALIASES[CHOOSE i \in exact : \A j \in exact : i <= j].rosterName
        ELSE NoMatch

\* standings[teamName] = pts: a name seen before keeps its place among the keys
SetEntry(entries, name, value) ==
    IF \E i \in 1..Len(entries) : entries[i].name = name
    THEN [i \in 1..Len(entries) |->
             IF entries[i].name = name THEN [entries[i] EXCEPT !.value = value] ELSE entries[i]]
    ELSE Append(entries, [name |-> name, value |-> value])

\* parseStandings over the rows it reads, in document order:
\* Object.entries of the object it returns
RECURSIVE parseStandings(_)
parseStandings(rows) ==
    IF rows = <<>> THEN <<>>
    ELSE SetEntry(parseStandings(SubSeq(rows, 1, Len(rows) - 1)),
                  rows[Len(rows)].name, rows[Len(rows)].value)

\* the entries of parseStandings as the phase 1 loop sees them after
\* const rosterName = matchTeamName(wikiName)
ResolvedStandings(rows) ==
    LET entries == parseStandings(rows)
    IN  [i \in 1..Len(entries) |->
            [name |-> matchTeamName(entries[i].name), value |-> entries[i].value]]

----------------------------------------------------------------------------
(* Scraper pipeline: tables, their headers and their cells *)

\* A table is the sequence of its tr rows; a row is [th, cells]: whether its
\* cells are th cells, and the trimmed text of each cell.  Header texts and
\* names carry no footnote marks.

\* $table.find('tr').eq(i).find('th'), i counted from 0
HeaderCells(table, i) ==
    IF i + 1 <= Len(table) /\ table[i + 1].th THEN table[i + 1].cells ELSE <<>>

\* cells.eq(i).text(), i counted from 0 and from the end when negative
CellAt(cells, i) ==
    IF 0 <= i /\ i < Len(cells) THEN cells[i + 1]
    ELSE IF i < 0 /\ Len(cells) + i >= 0 THEN cells[Len(cells) + i + 1]
    ELSE ""

\* headers.findIndex(h => /^(...)$/i.test(h)), the alternatives in lower case
FindHeader(headers, accepted) ==
    LET hits == {i \in 1..Len(headers) : toLowerCase(headers[i]) \in accepted}
    IN  IF hits = {} THEN -1 ELSE (CHOOSE i \in hits : \A j \in hits : i <= j) - 1

\* headers.indexOf(h) / headers.findIndex(h => h === ...), letter case kept
FindHeaderExact(headers, accepted) ==
    LET hits == {i \in 1..Len(headers) : headers[i] \in accepted}
    IN  IF hits = {} THEN -1 ELSE (CHOOSE i \in hits : \A j \in hits : i <= j) - 1

DigitChars == "0123456789"

\* the NaN of parseInt; a parsed digit string is never negative
NotANumber == -1

RECURSIVE DigitsValue(_, _)
DigitsValue(text, acc) ==
    IF Len(text) = 0 THEN acc
    ELSE LET c == SubSeq(text, 1, 1)
             d == CHOOSE k \in 1..Len(DigitChars) : SubSeq(DigitChars, k, k) = c
         IN  DigitsValue(SubSeq(text, 2, Len(text)), acc * 10 + (d - 1))

RECURSIVE KeepDigits(_)
KeepDigits(text) ==
    IF Len(text) = 0 THEN ""
    ELSE (IF includes(DigitChars, SubSeq(text, 1, 1)) THEN SubSeq(text, 1, 1) ELSE "")
         \o KeepDigits(SubSeq(text, 2, Len(text)))

\* parseInt(text.replace(/[^0-9]/g, ''), 10)
ParseDigits(text) ==
    LET digits == KeepDigits(text)
    IN  IF digits = "" THEN NotANumber ELSE DigitsValue(digits, 0)

RECURSIVE ConcatCells(_)
ConcatCells(cells) == IF cells = <<>> THEN "" ELSE Head(cells) \o ConcatCells(Tail(cells))

----------------------------------------------------------------------------
(* Scraper pipeline: the league page parsers over tables *)

\* h.startsWith(prefix)
startsWith(text, prefix) ==
    Len(text) >= Len(prefix) /\ SubSeq(text, 1, Len(prefix)) = prefix

\* parseStandings: the rows one table.wikitable contributes, in row order
StandingsTableRows(table) ==
    LET headers == HeaderCells(table, 0)
        teamIdx == IF FindHeaderExact(headers, {"Team"}) = -1 THEN 1
                   ELSE FindHeaderExact(headers, {"Team"})
        ptsIdx == FindHeaderExact(headers, {"Pts"})
        data == SelectSeq(Tail(table), LAMBDA row : ~(row.th /\ Len(row.cells) > 2))
        read == [i \in 1..Len(data) |->
                    [name |-> CellAt(data[i].cells, teamIdx),
                     value |-> ParseDigits(CellAt(data[i].cells, ptsIdx))]]
    IN  IF table = <<>> \/ ptsIdx < 0 THEN <<>>
        ELSE SelectSeq(read, LAMBDA r : r.name # "" /\ r.value # NotANumber)

\* the rows parseStandings reads from the tables of a page: it stops after
\* the table that brings the standings above five teams
RECURSIVE StandingsTablesRead(_, _)
StandingsTablesRead(rows, tables) ==
    IF tables = <<>> THEN rows
    ELSE LET next == rows \o StandingsTableRows(Head(tables))
         IN  IF Len(parseStandings(next)) > 5 THEN next
             ELSE StandingsTablesRead(next, Tail(tables))

parseStandingsPage(tables) == parseStandings(StandingsTablesRead(<<>>, tables))

\* parseTopScorers: headers.findIndex of the player and of the goals column
TopScorerPlayerIdx(headers) == FindHeaderExact(headers, {"Player", "Name"})
TopScorerGoalsIdx(headers) ==
    LET hits == {i \in 1..Len(headers) :
                    headers[i] \in {"Goals", "Gls"} \/ startsWith(headers[i], "Goals")}
    IN  IF hits = {} THEN -1 ELSE (CHOOSE i \in hits : \A j \in hits : i <= j) - 1

\* the cell whose text the cells.each loop leaves in playerName: the last
\* ci with ci === playerIdx || (ci === playerIdx - 1 && cells.length <
\* headers.length); -1 when no cell qualifies
TopScorerPlayerCell(playerIdx, headerCount, cellCount) ==
    IF playerIdx < cellCount THEN playerIdx
    ELSE IF cellCount < headerCount /\ 0 <= playerIdx - 1 /\ playerIdx - 1 < cellCount
         THEN playerIdx - 1
    ELSE -1

\* cells.eq(goalsIdx < cells.length ? goalsIdx : cells.length - 1)
TopScorerGoalsCell(goalsIdx, cellCount) ==
    IF goalsIdx < cellCount THEN goalsIdx ELSE cellCount - 1

\* the body of the row loop of parseTopScorers; acc is [scorers, lastGoals]
TopScorerRow(acc, cells, headerCount, playerIdx, goalsIdx) ==
    LET nameCell == TopScorerPlayerCell(playerIdx, headerCount, Len(cells))
        positional == IF nameCell < 0 THEN "" ELSE CellAt(cells, nameCell)
        parsed == ParseDigits(CellAt(cells, TopScorerGoalsCell(goalsIdx, Len(cells))))
        goals == IF parsed = NotANumber /\ positional # "" THEN acc.lastGoals ELSE parsed
        playerName == IF positional = "" THEN CellAt(cells, 1) ELSE positional
        listed == {i \in 1..Len(acc.scorers) : acc.scorers[i].name = playerName}
        before == IF listed = {} THEN 0 ELSE acc.scorers[CHOOSE i \in listed : TRUE].value
    IN  [scorers |-> IF playerName # "" /\ goals # NotANumber /\ goals > 0
                     THEN SetEntry(acc.scorers, playerName, before + goals)
                     ELSE acc.scorers,
         lastGoals |-> IF goals # NotANumber THEN goals ELSE acc.lastGoals]

RECURSIVE TopScorerRows(_, _, _, _, _)
TopScorerRows(acc, rows, headerCount, playerIdx, goalsIdx) ==
    IF rows = <<>> THEN acc
    ELSE TopScorerRows(TopScorerRow(acc, Head(rows).cells, headerCount, playerIdx, goalsIdx),
                       Tail(rows), headerCount, playerIdx, goalsIdx)

\* what one table.wikitable adds to scorers
TopScorerTable(scorers, table) ==
    LET headers == HeaderCells(table, 0)
        playerIdx == TopScorerPlayerIdx(headers)
        goalsIdx == TopScorerGoalsIdx(headers)
    IN  IF playerIdx < 0 \/ goalsIdx < 0 THEN scorers
        ELSE TopScorerRows([scorers |-> scorers, lastGoals |-> 0], Tail(table),
                           Len(headers), playerIdx, goalsIdx).scorers

\* parseTopScorers: the first table that yields a scorer ends the loop
RECURSIVE parseTopScorers(_)
parseTopScorers(tables) ==
    IF tables = <<>> THEN <<>>
    ELSE IF TopScorerTable(<<>>, Head(tables)) # <<>> THEN TopScorerTable(<<>>, Head(tables))
    ELSE parseTopScorers(Tail(tables))

----------------------------------------------------------------------------
(* Scraper pipeline: the club season page parser *)

findTotalColumn(headers) ==
    IF FindHeaderExact(headers, {"Total"}) >= 0 THEN FindHeaderExact(headers, {"Total"})
    ELSE IF FindHeader(headers, {"season total"}) >= 0 THEN FindHeader(headers, {"season total"})
    ELSE FindHeader(headers, {"career club total"})

Max(a, b) == IF a > b THEN a ELSE b
Min(a, b) == IF a < b THEN a ELSE b

\* parseGoalscorerTable: the cell read for the header at `logical`; inflated
\* is cellMultiplier > 1 && cells.length > headers.length
GoalscorerPlayerCell(playerIdx, headerCount, cellCount, inflated) ==
    IF inflated THEN playerIdx
    ELSE Min(Max(0, playerIdx - Max(0, headerCount - cellCount)), cellCount - 1)

GoalscorerTotalCell(playerIdx, totalIdx, headerCount, cellCount, inflated) ==
    IF inflated THEN (playerIdx + 1) + (totalIdx - (playerIdx + 1)) * 2
    ELSE Min(Max(0, totalIdx - Max(0, headerCount - cellCount)), cellCount - 1)

\* the body of the row loop of parseGoalscorerTable
GoalscorerRow(result, cells, headerCount, playerIdx, totalIdx, cellMultiplier) ==
    IF Len(cells) < 3 \/ cells[1] \in {"Total", "Totals"} THEN result
    ELSE LET inflated == cellMultiplier > 1 /\ Len(cells) > headerCount
             name == CellAt(cells, GoalscorerPlayerCell(playerIdx, headerCount, Len(cells), inflated))
             goals == ParseDigits(CellAt(cells,
                          GoalscorerTotalCell(playerIdx, totalIdx, headerCount, Len(cells), inflated)))
         IN  IF Len(name) < 2 THEN result
             ELSE IF goals > 0 THEN SetEntry(result, name, goals)
             ELSE result

RECURSIVE GoalscorerRows(_, _, _, _, _, _)
GoalscorerRows(result, rows, headerCount, playerIdx, totalIdx, cellMultiplier) ==
    IF rows = <<>> THEN result
    ELSE GoalscorerRows(
            GoalscorerRow(result, Head(rows).cells, headerCount, playerIdx, totalIdx, cellMultiplier),
            Tail(rows), headerCount, playerIdx, totalIdx, cellMultiplier)

\* Type A: a dedicated goalscorer table
parseGoalscorerTable(table, headers, headerRowIdx) ==
    LET playerIdx == FindHeader(headers, {"player", "name"})
        totalIdx == findTotalColumn(headers)
        firstDataCells == IF headerRowIdx + 2 <= Len(table)
                          THEN Len(table[headerRowIdx + 2].cells) ELSE 0
        cellMultiplier == IF 2 * firstDataCells > 3 * Len(headers) THEN 2 ELSE 1
    IN  IF playerIdx < 0 \/ totalIdx < 0 THEN <<>>
        ELSE GoalscorerRows(<<>>, SubSeq(table, headerRowIdx + 2, Len(table)),
                            Len(headers), playerIdx, totalIdx, cellMultiplier)

\* detectAppsGoalsPattern: the text of the second row names apps and goals
detectAppsGoalsPattern(table) ==
    /\ Len(table) >= 2
    /\ includes(toLowerCase(ConcatCells(table[2].cells)), "apps")
    /\ includes(toLowerCase(ConcatCells(table[2].cells)), "goals")

\* parseSquadAppearancesTable: the cell read as the goals under the Total header
SquadGoalsCell(playerIdx, totalHeaderIdx) ==
    (playerIdx + 1) + (totalHeaderIdx - (playerIdx + 1)) * 2 + 1

\* the fallback: the sum of every second cell after the first one that
\* follows the information columns
RECURSIVE SumGoalsCells(_, _)
SumGoalsCells(cells, ci) ==
    IF ci >= Len(cells) THEN 0
    ELSE (IF ParseDigits(CellAt(cells, ci)) = NotANumber THEN 0 ELSE ParseDigits(CellAt(cells, ci)))
         + SumGoalsCells(cells, ci + 2)

SquadSectionLabels == {"Goalkeepers", "Defenders", "Midfielders", "Forwards", "Total", "Totals"}

\* the body of the row loop of parseSquadAppearancesTable
SquadRow(result, cells, playerIdx, totalHeaderIdx) ==
    IF Len(cells) < 5 \/ cells[1] \in SquadSectionLabels THEN result
    ELSE LET name == CellAt(cells, Min(playerIdx, Len(cells) - 1))
             totalGoalsCell == SquadGoalsCell(playerIdx, totalHeaderIdx)
             goals == ParseDigits(CellAt(cells, totalGoalsCell))
             summed == SumGoalsCells(cells, playerIdx + 2)
         IN  IF Len(name) < 2 THEN result
             ELSE IF totalHeaderIdx >= 0 /\ totalGoalsCell < Len(cells) /\ goals > 0
                  THEN SetEntry(result, name, goals)
             ELSE IF summed > 0 THEN SetEntry(result, name, summed)
             ELSE result

RECURSIVE SquadRows(_, _, _, _)
SquadRows(result, rows, playerIdx, totalHeaderIdx) ==
    IF rows = <<>> THEN result
    ELSE SquadRows(SquadRow(result, Head(rows).cells, playerIdx, totalHeaderIdx),
                   Tail(rows), playerIdx, totalHeaderIdx)

\* Type B: a squad appearances table
parseSquadAppearancesTable(table, headers, headerRowIdx) ==
    LET playerIdx == FindHeader(headers, {"player", "name"})
    IN  IF playerIdx < 0 \/ ~detectAppsGoalsPattern(table) THEN <<>>
        ELSE SquadRows(<<>>, SubSeq(table, headerRowIdx + 3, Len(table)),
                       playerIdx, findTotalColumn(headers))

\* the headers of a table: the th cells of its first row, or of its second
\* row under a title row
ResolveHeaders(table) ==
    LET first == HeaderCells(table, 0)
        second == HeaderCells(table, 1)
    IN  IF Len(first) <= 2 /\ Len(second) > Len(first)
        THEN [headers |-> second, headerRowIdx |-> 1]
        ELSE [headers |-> first, headerRowIdx |-> 0]

\* what the first loop of parseTeamGoalscorers pushes for one table, or
\* nothing when the table is passed over
Candidate(table, tableIdx) ==
    LET resolved == ResolveHeaders(table)
        headers == resolved.headers
        hasPlayer == FindHeader(headers, {"player", "name"}) >= 0
        hasTotal == findTotalColumn(headers) >= 0
        hasRank == FindHeader(headers, {"rank", "rk", "rk.", "#"}) >= 0
        hasGoals == FindHeader(headers, {"goals", "gls"}) >= 0
        hasPos == FindHeader(headers, {"pos", "pos."}) >= 0
    IN  IF ~hasPlayer \/ (~hasTotal /\ ~hasGoals) THEN <<>>
        ELSE << [table |-> table, headers |-> headers, tableIdx |-> tableIdx,
                 priority |-> IF hasRank THEN 10 ELSE IF hasPos THEN 5 ELSE 1,
                 isGoalscorerTable |-> hasRank, headerRowIdx |-> resolved.headerRowIdx] >>

RECURSIVE Candidates(_, _)
Candidates(tables, n) ==
    IF n = 0 THEN <<>> ELSE Candidates(tables, n - 1) \o Candidate(tables[n], n - 1)

\* candidates.sort((a, b) => b.priority - a.priority), a stable sort
RECURSIVE InsertByPriority(_, _)
InsertByPriority(sorted, c) ==
    IF sorted = <<>> THEN <<c>>
    ELSE IF Head(sorted).priority < c.priority THEN <<c>> \o sorted
    ELSE <<Head(sorted)>> \o InsertByPriority(Tail(sorted), c)

RECURSIVE SortByPriority(_)
SortByPriority(candidates) ==
    IF candidates = <<>> THEN <<>>
    ELSE InsertByPriority(SortByPriority(SubSeq(candidates, 1, Len(candidates) - 1)),
                          candidates[Len(candidates)])

\* the scorers one candidate yields
TableScorers(c) ==
    IF c.isGoalscorerTable THEN parseGoalscorerTable(c.table, c.headers, c.headerRowIdx)
    ELSE IF parseSquadAppearancesTable(c.table, c.headers, c.headerRowIdx) # <<>>
         THEN parseSquadAppearancesTable(c.table, c.headers, c.headerRowIdx)
    ELSE parseGoalscorerTable(c.table, c.headers, c.headerRowIdx)

\* a plausible slip: a later table replaces what an earlier one gave
RECURSIVE MergeScorersLastWins(_, _)
MergeScorersLastWins(scorers, tableScorers) ==
    IF tableScorers = <<>> THEN scorers
    ELSE MergeScorersLastWins(SetEntry(scorers, Head(tableScorers).name, Head(tableScorers).value),
                              Tail(tableScorers))

\* if (!(name in scorers)) scorers[name] = goals
RECURSIVE MergeScorers(_, _)
MergeScorers(scorers, tableScorers) ==
    IF tableScorers = <<>> THEN scorers
    ELSE MergeScorers(
            IF \E i \in 1..Len(scorers) : scorers[i].name = Head(tableScorers).name
            THEN scorers
            ELSE Append(scorers, Head(tableScorers)),
            Tail(tableScorers))

\* normWiki.includes(t) || t.includes(normWiki)
TargetFound(scorers, target) ==
    \E i \in 1..Len(scorers) :
        \/ includes(normalize(scorers[i].name), normalize(target))
        \/ includes(normalize(target), normalize(scorers[i].name))

\* foundTargets.length === normTargets.length, with targets given
AllTargetsFound(scorers, targets) ==
    /\ targets # <<>>
    /\ \A t \in 1..Len(targets) : TargetFound(scorers, targets[t])

\* the second loop of parseTeamGoalscorers over the sorted candidates
RECURSIVE MergeCandidates(_, _, _)
MergeCandidates(scorers, candidates, targets) ==
    IF candidates = <<>> THEN scorers
    ELSE LET tableScorers == TableScorers(Head(candidates))
             merged == MergeScorers(scorers, tableScorers)
         IN  IF tableScorers = <<>> THEN MergeCandidates(scorers, Tail(candidates), targets)
             ELSE IF AllTargetsFound(merged, targets) THEN merged
             ELSE MergeCandidates(merged, Tail(candidates), targets)

\* parseTeamGoalscorers over the wikitables of a page, in document order
parseTeamGoalscorers(tables, targetPlayerNames) ==
    MergeCandidates(<<>>, SortByPriority(Candidates(tables, Len(tables))), targetPlayerNames)

----------------------------------------------------------------------------
(* Scraper pipeline: aggregation *)

\* phase 1: teamPoints[rosterName] = pts for each standings fact that
\* resolves to a roster team
RECURSIVE MergeLeaguePoints(_, _, _)
MergeLeaguePoints(map, standings, teams) ==
    IF standings = <<>> THEN map
    ELSE MergeLeaguePoints(
            IF Head(standings).name \in teams
            THEN Put(map, Head(standings).name, Head(standings).value)
            ELSE map,
            Tail(standings), teams)

\* phases 1 and 2: map[rosterName] = (map[rosterName] || 0) + value
RECURSIVE MergeAdditive(_, _, _)
MergeAdditive(map, facts, names) ==
    IF facts = <<>> THEN map
    ELSE MergeAdditive(
            IF Head(facts).name \in names
            THEN Put(map, Head(facts).name, Lookup(map, Head(facts).name, 0) + Head(facts).value)
            ELSE map,
            Tail(facts), names)

\* phase 2.5: for each player of the page, the first scorer entry that
\* matches the player sets playerGoals[playerName]
RECURSIVE MergeClubGoals(_, _, _)
MergeClubGoals(map, players, teamScorers) ==
    IF players = <<>> THEN map
    ELSE LET p == Head(players)
             hits == SelectSeq(teamScorers, LAMBDA f : f.name = p)
         IN  MergeClubGoals(IF hits = <<>> THEN map ELSE Put(map, p, hits[1].value),
                            Tail(players), teamScorers)

\* phase 2.5: the roster players still without goals, grouped by club page in
\* first-seen order; players without a page are left out
RECURSIVE GroupByUrl(_, _)
GroupByUrl(groups, players) ==
    IF players = <<>> THEN groups
    ELSE LET p == Head(players)
         IN  IF p \notin DOMAIN PLAYER_TEAM_MAP THEN GroupByUrl(groups, Tail(players))
             ELSE LET url == PLAYER_TEAM_MAP[p]
                      at == {i \in 1..Len(groups) : groups[i].url = url}
                  IN  IF at = {}
                      THEN GroupByUrl(Append(groups, [url |-> url, players |-> <<p>>]),
                                      Tail(players))
                      ELSE LET i == CHOOSE j \in at : TRUE
                           IN  GroupByUrl([groups EXCEPT ![i].players = Append(@, p)],
                                          Tail(players))

MissingPlayers(r, goals) ==
    SelectSeq(RosterPlayers(r), LAMBDA p : p \notin DOMAIN goals)

UrlToPlayers(r, goals) == GroupByUrl(<<>>, MissingPlayers(r, goals))

----------------------------------------------------------------------------
(* Scraper pipeline: one run of main *)

\* const validation before main reaches its declaration
NotValidated == <<>>

\* the gate has been called in this run and has rejected, or approved
GateRejected == validation # NotValidated /\ ~validation[1].valid
GateApproved == validation # NotValidated /\ validation[1].valid

Running == pc \in {"league", "uefa", "club", "gate", "write"}

\* main up to phase 1: read rosters.json and results.json, empty maps
StartRun ==
    /\ pc \in {"idle", "written", "aborted"}
    /\ now < MaxRuns
    /\ now' = now + 1
    /\ previousResults' = resultsFile
    /\ teamPoints' = EmptyMap /\ uefaPoints' = EmptyMap /\ playerGoals' = EmptyMap
    /\ urlToPlayers' = <<>>
    /\ fetched' = <<>> /\ lastFetchOk' = TRUE
    /\ results' = NoSnapshot
    /\ validation' = NotValidated
    /\ exitCode' = -1
    /\ pc' = "league" /\ idx' = 1
    /\ UNCHANGED <<resultsFile, rosters>>

\* where main goes after the league page at position i
AfterLeague(i) ==
    IF i < Len(LEAGUE_PAGES)
    THEN pc' = "league" /\ idx' = i + 1
    ELSE pc' = "uefa" /\ idx' = 1

\* a plausible slip: the try block wraps the loop, so a failed fetch ends phase 1
LeagueFetchEndingPhaseOnFailure(ok, standings, scorers) ==
    /\ pc = "league"
    /\ fetched' = Append(fetched, LEAGUE_PAGES[idx])
    /\ lastFetchOk' = ok
    /\ IF ok
       THEN /\ teamPoints' = MergeLeaguePoints(teamPoints, standings, RosterTeams(rosters))
            /\ playerGoals' = MergeAdditive(playerGoals, scorers, Range(RosterPlayers(rosters)))
            /\ AfterLeague(idx)
       ELSE /\ UNCHANGED <<teamPoints, playerGoals>>
            /\ pc' = "uefa" /\ idx' = 1
    /\ UNCHANGED <<resultsFile, rosters, now, previousResults, uefaPoints, urlToPlayers,
                   results, validation, exitCode>>

\* a plausible slip: league points are added up like goals
LeagueFetchAddingPoints(ok, standings, scorers) ==
    /\ pc = "league"
    /\ fetched' = Append(fetched, LEAGUE_PAGES[idx])
    /\ lastFetchOk' = ok
    /\ IF ok
       THEN /\ teamPoints' = MergeAdditive(teamPoints, standings, RosterTeams(rosters))
            /\ playerGoals' = MergeAdditive(playerGoals, scorers, Range(RosterPlayers(rosters)))
       ELSE UNCHANGED <<teamPoints, playerGoals>>
    /\ AfterLeague(idx)
    /\ UNCHANGED <<resultsFile, rosters, now, previousResults, uefaPoints, urlToPlayers,
                   results, validation, exitCode>>

\* one iteration of the phase 1 loop: fetch, parse, merge, sleep
LeagueFetch(ok, standings, scorers) ==
    /\ pc = "league"
    /\ fetched' = Append(fetched, LEAGUE_PAGES[idx])
    /\ lastFetchOk' = ok
    /\ IF ok
       THEN /\ teamPoints' = MergeLeaguePoints(teamPoints, standings, RosterTeams(rosters))
            /\ playerGoals' = MergeAdditive(playerGoals, scorers, Range(RosterPlayers(rosters)))
       ELSE UNCHANGED <<teamPoints, playerGoals>>
    /\ AfterLeague(idx)
    /\ UNCHANGED <<resultsFile, rosters, now, previousResults, uefaPoints, urlToPlayers,
                   results, validation, exitCode>>

\* where main goes after the UEFA page at position i: the next UEFA page,
\* phase 2.5 when a roster player has no goals yet, else phase 3
AfterUefa(i, goals) ==
    IF i < Len(UEFA_PAGES)
    THEN pc' = "uefa" /\ idx' = i + 1 /\ urlToPlayers' = urlToPlayers
    ELSE /\ urlToPlayers' = UrlToPlayers(rosters, goals)
         /\ idx' = 1
         /\ pc' = IF UrlToPlayers(rosters, goals) = <<>> THEN "gate" ELSE "club"

\* a plausible slip: a UEFA scorer entry replaces the goals counted so far
UefaFetchOverwritingGoals(ok, standings, scorers) ==
    /\ pc = "uefa"
    /\ fetched' = Append(fetched, UEFA_PAGES[idx])
    /\ lastFetchOk' = ok
    /\ IF ok
       THEN /\ uefaPoints' = MergeAdditive(uefaPoints, standings, RosterTeams(rosters))
            /\ playerGoals' = MergeLeaguePoints(playerGoals, scorers, Range(RosterPlayers(rosters)))
       ELSE UNCHANGED <<uefaPoints, playerGoals>>
    /\ AfterUefa(idx, playerGoals')
    /\ UNCHANGED <<resultsFile, rosters, now, previousResults, teamPoints,
                   results, validation, exitCode>>

\* one iteration of the phase 2 loop: fetch, parse, merge, sleep
UefaFetch(ok, standings, scorers) ==
    /\ pc = "uefa"
    /\ fetched' = Append(fetched, UEFA_PAGES[idx])
    /\ lastFetchOk' = ok
    /\ IF ok
       THEN /\ uefaPoints' = MergeAdditive(uefaPoints, standings, RosterTeams(rosters))
            /\ playerGoals' = MergeAdditive(playerGoals, scorers, Range(RosterPlayers(rosters)))
       ELSE UNCHANGED <<uefaPoints, playerGoals>>
    /\ AfterUefa(idx, playerGoals')
    /\ UNCHANGED <<resultsFile, rosters, now, previousResults, teamPoints,
                   results, validation, exitCode>>

\* where main goes after the club page at position i
AfterClub(i) ==
    IF i < Len(urlToPlayers)
    THEN pc' = "club" /\ idx' = i + 1
    ELSE pc' = "gate" /\ idx' = 1

\* one iteration of the phase 2.5 loop: fetch, parse, merge, sleep
ClubFetch(ok, teamScorers) ==
    /\ pc = "club"
    /\ fetched' = Append(fetched, urlToPlayers[idx].url)
    /\ lastFetchOk' = ok
    /\ IF ok
       THEN playerGoals' = MergeClubGoals(playerGoals, urlToPlayers[idx].players, teamScorers)
       ELSE UNCHANGED playerGoals
    /\ AfterClub(idx)
    /\ UNCHANGED <<resultsFile, rosters, now, previousResults, teamPoints, uefaPoints,
                   urlToPlayers, results, validation, exitCode>>

\* a plausible slip: the verdict of the gate is logged and the run goes on
ComputeAndGateIgnoringVerdict ==
    /\ pc = "gate"
    /\ LET r == ScraperCompute(rosters, teamPoints, uefaPoints, playerGoals, now)
       IN  /\ results' = r
           /\ validation' = <<validateResults(r, previousResults)>>
           /\ pc' = "write" /\ exitCode' = exitCode
    /\ UNCHANGED <<resultsFile, rosters, now, idx, previousResults, teamPoints, uefaPoints,
                   playerGoals, urlToPlayers, fetched, lastFetchOk>>

\* phases 3 and 4: compute the results, run the gate, exit(1) on a violation
ComputeAndGate ==
    /\ pc = "gate"
    /\ LET r == ScraperCompute(rosters, teamPoints, uefaPoints, playerGoals, now)
           v == validateResults(r, previousResults)
       IN  /\ results' = r
           /\ validation' = <<v>>
           /\ IF v.valid
              THEN pc' = "write" /\ exitCode' = exitCode
              ELSE pc' = "aborted" /\ exitCode' = 1
    /\ UNCHANGED <<resultsFile, rosters, now, idx, previousResults, teamPoints, uefaPoints,
                   playerGoals, urlToPlayers, fetched, lastFetchOk>>

\* what JSON.parse reads back from JSON.stringify(results)
JsonPool(pool) ==
    [i \in 1..Len(pool) |->
        IF "total_points" \in DOMAIN pool[i]
        THEN [pool[i] EXCEPT !.total_points = JsonValue(@)]
        ELSE [pool[i] EXCEPT !.total_goals = JsonValue(@)]]

JsonSnapshot(r) ==
    [exists |-> TRUE, last_updated |-> r.last_updated, season |-> r.season,
     team_pool |-> JsonPool(r.team_pool), goals_pool |-> JsonPool(r.goals_pool)]

\* phase 5: write results.json, then the summary; main returns
WriteResults ==
    /\ pc = "write"
    /\ resultsFile' = JsonSnapshot(results)
    /\ pc' = "written"
    /\ exitCode' = 0
    /\ UNCHANGED <<rosters, now, idx, previousResults, teamPoints, uefaPoints, playerGoals,
                   urlToPlayers, fetched, lastFetchOk, results, validation>>

----------------------------------------------------------------------------
(* Scraper pipeline: source content and the specification *)

\* the facts one parsed table yields: at most n (name, value) pairs
FactSeqs(names, values, n) ==
    UNION {[1..k -> [name : names, value : values]] : k \in 0..n}

ScraperRosters ==
    [rosters |->
        << [participant |-> "Ann", teams |-> <<"T1">>, players |-> <<>>],
           [participant |-> "Bob", teams |-> <<>>,
            players |-> << [name |-> "P1", active_from_date |-> 0] >>] >>,
     pool_metadata |-> [season |-> "2025-26"]]

\* names a page can resolve to: the roster's, and one outside the roster
TeamNames == {"T1", "T9"}
PlayerNames == {"P1", "P9"}

StandingsContents == FactSeqs(TeamNames, 0..MaxScraped, 1)
ScorerContents == FactSeqs(PlayerNames, 1..MaxScraped, 1)

InitScraper ==
    /\ resultsFile = NoSnapshot
    /\ rosters = ScraperRosters
    /\ now = 0
    /\ pc = "idle" /\ idx = 1
    /\ previousResults = NoSnapshot
    /\ teamPoints = EmptyMap /\ uefaPoints = EmptyMap /\ playerGoals = EmptyMap
    /\ urlToPlayers = <<>>
    /\ fetched = <<>> /\ lastFetchOk = TRUE
    /\ results = NoSnapshot
    /\ validation = NotValidated
    /\ exitCode = -1

PureIdle == fn = "none" /\ arg = <<>> /\ res = <<>> /\ returned = FALSE

\* no page is held fixed: each fetch sees whatever the site serves then
NoWeb == [doc \in {} |-> [ok |-> FALSE]]

\* no request issued, no timer set
InitNet ==
    /\ awaiting = "nothing"
    /\ requestCount = 0
    /\ redirects = 0
    /\ elapsed = TRUE
    /\ delayedStart = TRUE

\* the scraper, which needs no credential
InitScraperScript ==
    /\ script = "scrape-fbref" /\ apiKey = FALSE
    /\ leagueStandings = EmptyMap /\ uefaStandings = EmptyMap /\ goalMap = EmptyMap

Init == InitScraper /\ PureIdle /\ web = NoWeb /\ InitNet /\ InitScraperScript

Next ==
    \/ StartRun /\ UNCHANGED <<pureVars, otherVars>>
    \/ \E st \in StandingsContents, sc \in ScorerContents :
          LeagueFetch(TRUE, st, sc) /\ UNCHANGED <<pureVars, otherVars>>
    \/ LeagueFetch(FALSE, <<>>, <<>>) /\ UNCHANGED <<pureVars, otherVars>>
    \/ \E st \in StandingsContents, sc \in ScorerContents :
          UefaFetch(TRUE, st, sc) /\ UNCHANGED <<pureVars, otherVars>>
    \/ UefaFetch(FALSE, <<>>, <<>>) /\ UNCHANGED <<pureVars, otherVars>>
    \/ \E sc \in ScorerContents : ClubFetch(TRUE, sc) /\ UNCHANGED <<pureVars, otherVars>>
    \/ ClubFetch(FALSE, <<>>) /\ UNCHANGED <<pureVars, otherVars>>
    \/ ComputeAndGate /\ UNCHANGED <<pureVars, otherVars>>
    \/ WriteResults /\ UNCHANGED <<pureVars, otherVars>>

Spec == Init /\ [][Next]_vars

----------------------------------------------------------------------------
(* Scraper pipeline run repeatedly against pages that do not change *)

\* the club season pages of PLAYER_TEAM_MAP
ClubUrls == {PLAYER_TEAM_MAP[p] : p \in DOMAIN PLAYER_TEAM_MAP}

\* the documents a run over the roster can ask for
Documents(r) ==
    Range(LEAGUE_PAGES) \cup Range(UEFA_PAGES)
    \cup {PLAYER_TEAM_MAP[p] : p \in Range(RosterPlayers(r)) \cap DOMAIN PLAYER_TEAM_MAP}

\* what a document serves: an error, or tables naming roster teams and players
Pages(r) ==
    {[ok |-> FALSE, standings |-> <<>>, scorers |-> <<>>]}
    \cup [ok : {TRUE},
          standings : FactSeqs(RosterTeams(r), 0..MaxScraped, 1),
          scorers : FactSeqs(Range(RosterPlayers(r)), 1..MaxScraped, 1)]

\* a club page has a goalscorer table only
ClubPages(r) == {p \in Pages(r) : p.standings = <<>>}

InitIdem ==
    /\ InitScraper
    /\ PureIdle
    /\ InitNet
    /\ InitScraperScript
    /\ web \in [Documents(ScraperRosters) -> Pages(ScraperRosters)]
    /\ \A doc \in DOMAIN web :
          doc \in ClubUrls => web[doc] \in ClubPages(ScraperRosters)

LeagueFetchFixed ==
    /\ pc = "league"
    /\ LET page == web[LEAGUE_PAGES[idx]]
       IN  LeagueFetch(page.ok, page.standings, page.scorers)

UefaFetchFixed ==
    /\ pc = "uefa"
    /\ LET page == web[UEFA_PAGES[idx]]
       IN  UefaFetch(page.ok, page.standings, page.scorers)

ClubFetchFixed ==
    /\ pc = "club"
    /\ LET page == web[urlToPlayers[idx].url]
       IN  ClubFetch(page.ok, page.scorers)

NextIdem ==
    \/ StartRun /\ UNCHANGED <<pureVars, otherVars>>
    \/ LeagueFetchFixed /\ UNCHANGED <<pureVars, otherVars>>
    \/ UefaFetchFixed /\ UNCHANGED <<pureVars, otherVars>>
    \/ ClubFetchFixed /\ UNCHANGED <<pureVars, otherVars>>
    \/ ComputeAndGate /\ UNCHANGED <<pureVars, otherVars>>
    \/ WriteResults /\ UNCHANGED <<pureVars, otherVars>>

SpecIdem == InitIdem /\ [][NextIdem]_vars

----------------------------------------------------------------------------
(* Scraper pipeline: one run over pages with several facts for one name *)

\* a roster whose two players share the club season page C1
MergeRosters ==
    [rosters |->
        << [participant |-> "Ann", teams |-> <<"T1">>,
            players |-> << [name |-> "P1", active_from_date |-> 0] >>],
           [participant |-> "Bob", teams |-> <<>>,
            players |-> << [name |-> "P3", active_from_date |-> 0] >>] >>,
     pool_metadata |-> [season |-> "2025-26"]]

\* team names as a standings table writes them: two that resolve to T1, one
\* that resolves to nothing
WikiTeamNames == {"T1", "T1 F.C.", "T9"}
StandingsRow == [name : WikiTeamNames, value : 0..MaxScraped]
StandingsRows ==
    {<<>>} \cup {<<r>> : r \in StandingsRow} \cup {<<r, q>> : r \in StandingsRow, q \in StandingsRow}

ScorerFact == [name : Range(RosterPlayers(MergeRosters)), value : 1..MaxScraped]
ScorerLists ==
    {<<>>} \cup {<<f>> : f \in ScorerFact} \cup {<<f, g>> : f \in ScorerFact, g \in ScorerFact}

FailedPage == [ok |-> FALSE, rows |-> <<>>, standings |-> <<>>, scorers |-> <<>>]
EmptyPage == [ok |-> TRUE, rows |-> <<>>, standings |-> <<>>, scorers |-> <<>>]
StandingsPage(rows) ==
    [ok |-> TRUE, rows |-> rows, standings |-> ResolvedStandings(rows), scorers |-> <<>>]
ScorerPage(scorers) ==
    [ok |-> TRUE, rows |-> <<>>, standings |-> <<>>, scorers |-> scorers]

StandingsPages == {FailedPage} \cup {StandingsPage(rows) : rows \in StandingsRows}
ScorerPages == {FailedPage} \cup {ScorerPage(sc) : sc \in ScorerLists}
ShortScorerPages == {p \in ScorerPages : Len(p.scorers) <= 1}

\* the sites a run is held against: standings that vary with no scorers, or
\* scorers that vary with no standings
StandingsWebs ==
    {[doc \in Documents(MergeRosters) |->
         IF doc = LEAGUE_PAGES[1] THEN a ELSE IF doc = LEAGUE_PAGES[2] THEN b ELSE EmptyPage]
     : a \in StandingsPages, b \in StandingsPages}
ScorerWebs ==
    {[doc \in Documents(MergeRosters) |->
         IF doc = LEAGUE_PAGES[1] THEN a
         ELSE IF doc = LEAGUE_PAGES[2] THEN b
         ELSE IF doc = UEFA_PAGES[1] THEN c ELSE d]
     : a \in ScorerPages, b \in ShortScorerPages, c \in ScorerPages, d \in ScorerPages}

\* the process about to start its only run
InitMerge ==
    /\ resultsFile = NoSnapshot
    /\ rosters = MergeRosters
    /\ now = MaxRuns - 1
    /\ pc = "idle" /\ idx = 1
    /\ previousResults = NoSnapshot
    /\ teamPoints = EmptyMap /\ uefaPoints = EmptyMap /\ playerGoals = EmptyMap
    /\ urlToPlayers = <<>>
    /\ fetched = <<>> /\ lastFetchOk = TRUE
    /\ results = NoSnapshot
    /\ validation = NotValidated
    /\ exitCode = -1
    /\ PureIdle
    /\ InitNet
    /\ InitScraperScript
    /\ web \in StandingsWebs \cup ScorerWebs

SpecMerge == InitMerge /\ [][NextIdem]_vars

----------------------------------------------------------------------------
(* Scraper pipeline, each loop iteration split at its awaits *)

\* main is called in a fresh process: requestCount is 0, nothing is pending
StartProcess ==
    /\ StartRun
    /\ awaiting' = "nothing"
    /\ requestCount' = 0
    /\ redirects' = 0
    /\ elapsed' = TRUE
    /\ delayedStart' = TRUE

\* fetchPage(url) called from a loop of main: the request is issued
FetchPage ==
    /\ pc \in {"league", "uefa", "club"}
    /\ awaiting = "nothing"
    /\ awaiting' = "response"
    /\ requestCount' = requestCount + 1
    /\ redirects' = 0
    /\ delayedStart' = elapsed
    /\ UNCHANGED <<elapsed, scraperVars>>

\* fetchPage: the response is a redirect with a location, and
\* fetchPage(redirect) issues the next request from the response callback
FetchRedirect ==
    /\ awaiting = "response"
    /\ redirects < MaxRedirects
    /\ redirects' = redirects + 1
    /\ requestCount' = requestCount + 1
    /\ elapsed' = FALSE
    /\ delayedStart' = FALSE
    /\ UNCHANGED <<awaiting, scraperVars>>

\* the final response or error of fetchPage has arrived and the loop body has
\* run up to its sleep(REQUEST_DELAY)
Responded ==
    /\ awaiting = "response"
    /\ awaiting' = "timer"
    /\ elapsed' = FALSE
    /\ UNCHANGED <<requestCount, redirects, delayedStart>>

\* sleep(REQUEST_DELAY) resolves
Sleep ==
    /\ awaiting = "timer"
    /\ awaiting' = "nothing"
    /\ elapsed' = TRUE
    /\ UNCHANGED <<requestCount, redirects, delayedStart, scraperVars>>

\* the synchronous end of main, once the last sleep has resolved
AfterLoops == awaiting = "nothing" /\ UNCHANGED netVars

NextFetch ==
    \/ StartProcess /\ UNCHANGED <<pureVars, web, apiVars>>
    \/ FetchPage /\ UNCHANGED <<pureVars, web, apiVars>>
    \/ FetchRedirect /\ UNCHANGED <<pureVars, web, apiVars>>
    \/ \E st \in StandingsContents, sc \in ScorerContents :
          LeagueFetch(TRUE, st, sc) /\ Responded /\ UNCHANGED <<pureVars, web, apiVars>>
    \/ LeagueFetch(FALSE, <<>>, <<>>) /\ Responded /\ UNCHANGED <<pureVars, web, apiVars>>
    \/ \E st \in StandingsContents, sc \in ScorerContents :
          UefaFetch(TRUE, st, sc) /\ Responded /\ UNCHANGED <<pureVars, web, apiVars>>
    \/ UefaFetch(FALSE, <<>>, <<>>) /\ Responded /\ UNCHANGED <<pureVars, web, apiVars>>
    \/ \E sc \in ScorerContents :
          ClubFetch(TRUE, sc) /\ Responded /\ UNCHANGED <<pureVars, web, apiVars>>
    \/ ClubFetch(FALSE, <<>>) /\ Responded /\ UNCHANGED <<pureVars, web, apiVars>>
    \/ Sleep /\ UNCHANGED <<pureVars, web, apiVars>>
    \/ ComputeAndGate /\ AfterLoops /\ UNCHANGED <<pureVars, web, apiVars>>
    \/ WriteResults /\ AfterLoops /\ UNCHANGED <<pureVars, web, apiVars>>

SpecFetch == Init /\ [][NextFetch]_vars

\* fetchPage: a redirect whose location was already requested in this chain,
\* in a cycle of MaxRedirects + 1 locations: fetchPage(redirect) issues the
\* request again.  redirects is the position in the cycle, and requestCount,
\* which the code only prints, is kept to the requests of the first lap so
\* that it stays bounded.
FetchRedirectBack ==
    /\ awaiting = "response"
    /\ redirects = MaxRedirects
    /\ redirects' = 0
    /\ requestCount' = requestCount - MaxRedirects
    /\ elapsed' = FALSE
    /\ delayedStart' = FALSE
    /\ UNCHANGED <<awaiting, scraperVars>>

\* what a league page lists when only the course of a run matters: nothing,
\* or the roster team with a point, so that a later run can fall below the
\* snapshot and be refused by the gate
LiveStandings == {<<>>, << [name |-> "T1", value |-> 1] >>}

NextFetchLive ==
    \/ StartProcess /\ UNCHANGED <<pureVars, web, apiVars>>
    \/ FetchPage /\ UNCHANGED <<pureVars, web, apiVars>>
    \/ FetchRedirect /\ UNCHANGED <<pureVars, web, apiVars>>
    \/ FetchRedirectBack /\ UNCHANGED <<pureVars, web, apiVars>>
    \/ \E st \in LiveStandings :
          LeagueFetch(TRUE, st, <<>>) /\ Responded /\ UNCHANGED <<pureVars, web, apiVars>>
    \/ LeagueFetch(FALSE, <<>>, <<>>) /\ Responded /\ UNCHANGED <<pureVars, web, apiVars>>
    \/ UefaFetch(TRUE, <<>>, <<>>) /\ Responded /\ UNCHANGED <<pureVars, web, apiVars>>
    \/ UefaFetch(FALSE, <<>>, <<>>) /\ Responded /\ UNCHANGED <<pureVars, web, apiVars>>
    \/ ClubFetch(TRUE, <<>>) /\ Responded /\ UNCHANGED <<pureVars, web, apiVars>>
    \/ ClubFetch(FALSE, <<>>) /\ Responded /\ UNCHANGED <<pureVars, web, apiVars>>
    \/ Sleep /\ UNCHANGED <<pureVars, web, apiVars>>
    \/ ComputeAndGate /\ AfterLoops /\ UNCHANGED <<pureVars, web, apiVars>>
    \/ WriteResults /\ AfterLoops /\ UNCHANGED <<pureVars, web, apiVars>>

\* The script is one thread of control: every request it waits for is
\* answered (by a document, an error or a redirect), every timer fires and
\* synchronous code runs on, so some step is taken whenever one is possible.
SpecFetchLive == Init /\ [][NextFetchLive]_vars /\ WF_vars(NextFetchLive)

----------------------------------------------------------------------------
(* The API scripts: update-data.js and its earlier version *)

\* TEAM_MAP, PLAYER_MAP and the league lists, cut down
TEAM_MAP == {"T1"}
PLAYER_MAP == <<"P1">>
leagueIds == <<"39">>
uefaLeagues == <<"champions_league", "europa_league">>

\* the league names fetchPlayerGoals leaves out
PlayerStatExclusions ==
    <<"super cup", "supercup", "community shield", "supercopa", "supercoppa",
      "trophée des champions">>

ExcludedStat(leagueName) ==
    \E i \in 1..Len(PlayerStatExclusions) :
        includes(toLowerCase(leagueName), PlayerStatExclusions[i])

\* fetchPlayerGoals: the goals of the statistics that are not excluded
RECURSIVE TotalGoals(_)
TotalGoals(statistics) ==
    IF statistics = <<>> THEN 0
    ELSE (IF ExcludedStat(Head(statistics).league) THEN 0 ELSE Head(statistics).goals)
         + TotalGoals(Tail(statistics))

\* standingsMap[entry.team.id] = entry.points || 0, for every entry
RECURSIVE MergeStandings(_, _)
MergeStandings(map, entries) ==
    IF entries = <<>> THEN map
    ELSE MergeStandings(Put(map, Head(entries).name, Head(entries).value), Tail(entries))

\* update-data main, step 4: the team_pool entry of one roster
UpdateTeamEntry(roster, leagueMap, uefaMap) ==
    LET known == [i \in 1..Len(roster.teams) |-> roster.teams[i] \in TEAM_MAP]
        league == [i \in 1..Len(roster.teams) |->
                      IF known[i] THEN Lookup(leagueMap, roster.teams[i], 0) ELSE 0]
        uefa == [i \in 1..Len(roster.teams) |->
                    IF known[i] THEN Lookup(uefaMap, roster.teams[i], 0) ELSE 0]
    IN  [participant |-> roster.participant,
         total_points |-> Num(SumSeq([i \in 1..Len(roster.teams) |-> league[i] + uefa[i]])),
         rank |-> 0,
         teams |-> [i \in 1..Len(roster.teams) |->
                       [name |-> roster.teams[i], league_points |-> league[i],
                        uefa_points |-> uefa[i], domestic_cup_points |-> 0]]]

\* update-data main, step 4: the goals_pool entry of one roster
UpdateGoalsEntry(roster, goals) ==
    LET counts == [i \in 1..Len(roster.players) |->
                      Lookup(goals, roster.players[i].name, 0)]
    IN  [participant |-> roster.participant,
         total_goals |-> Num(SumSeq(counts)),
         rank |-> 0,
         players |-> [i \in 1..Len(counts) |->
                         [name |-> roster.players[i].name, goals |-> counts[i]]]]

\* update-data main, steps 4 and 5: the results object
UpdateDataResults(rostersJson, leagueMap, uefaMap, goals, time) ==
    [last_updated |-> time,
     season |-> rostersJson.pool_metadata.season,
     team_pool |-> AssignRanks([r \in 1..Len(rostersJson.rosters) |->
                      UpdateTeamEntry(rostersJson.rosters[r], leagueMap, uefaMap)]),
     goals_pool |-> AssignRanks([r \in 1..Len(rostersJson.rosters) |->
                      UpdateGoalsEntry(rostersJson.rosters[r], goals)])]

\* the earlier version: no team and no player of rosters.json has an api_id,
\* so every breakdown is the zero one and every total is 0
StubResults(rostersJson, time) ==
    [last_updated |-> time,
     season |-> rostersJson.pool_metadata.season,
     team_pool |-> AssignRanks([r \in 1..Len(rostersJson.rosters) |->
         [participant |-> rostersJson.rosters[r].participant,
          total_points |-> Num(0), rank |-> 0,
          teams |-> [i \in 1..Len(rostersJson.rosters[r].teams) |->
                        [name |-> rostersJson.rosters[r].teams[i], league_points |-> 0,
                         uefa_points |-> 0, domestic_cup_points |-> 0]]]]),
     goals_pool |-> AssignRanks([r \in 1..Len(rostersJson.rosters) |->
         [participant |-> rostersJson.rosters[r].participant,
          total_goals |-> Num(0), rank |-> 0,
          players |-> [i \in 1..Len(rostersJson.rosters[r].players) |->
                          [name |-> rostersJson.rosters[r].players[i].name,
                           goals |-> 0]]]])]

\* a process starts: nothing requested, nothing pending, no local assigned
FreshProcess ==
    /\ pc \in {"idle", "written", "aborted", "exited"}
    /\ now < MaxRuns
    /\ now' = now + 1
    /\ awaiting' = "nothing" /\ requestCount' = 0 /\ redirects' = 0
    /\ elapsed' = TRUE /\ delayedStart' = TRUE
    /\ leagueStandings' = EmptyMap /\ uefaStandings' = EmptyMap /\ goalMap' = EmptyMap
    /\ results' = NoSnapshot
    /\ idx' = 1
    /\ UNCHANGED <<rosters, scraperLocals>>

\* the earlier version's main: exit(0) without a key, else the all-zero
\* results are written; it issues no request either way
StubMain(key) ==
    /\ FreshProcess
    /\ script' = "update-data-stub" /\ apiKey' = key
    /\ IF key
       THEN /\ resultsFile' = JsonSnapshot(StubResults(rosters, now'))
            /\ pc' = "written"
       ELSE /\ resultsFile' = resultsFile
            /\ pc' = "exited"
    /\ exitCode' = 0

\* update-data main up to its first await: exit(1) without a key
UpdateDataStart(key) ==
    /\ FreshProcess
    /\ script' = "update-data" /\ apiKey' = key
    /\ IF key
       THEN pc' = "api-status" /\ exitCode' = -1
       ELSE pc' = "exited" /\ exitCode' = 1
    /\ UNCHANGED resultsFile

ApiPhases == {"api-status", "api-leagues", "api-uefa", "api-players"}

\* apiGet(endpoint, params): the request is issued
ApiGet ==
    /\ pc \in ApiPhases
    /\ awaiting = "nothing"
    /\ awaiting' = "response"
    /\ requestCount' = requestCount + 1
    /\ delayedStart' = elapsed
    /\ UNCHANGED <<redirects, elapsed, scraperVars, script, apiKey, leagueStandings,
                   uefaStandings, goalMap>>

\* the response of apiGet has arrived; the loops sleep after a parsed
\* response only, main does not sleep after /status
ApiResponded(sleeps) ==
    /\ awaiting = "response"
    /\ awaiting' = IF sleeps THEN "timer" ELSE "nothing"
    /\ elapsed' = FALSE
    /\ UNCHANGED <<requestCount, redirects, delayedStart, script, apiKey>>

ApiUntouched ==
    UNCHANGED <<resultsFile, rosters, now, results, exitCode, scraperLocals>>

\* main: await apiGet('/status'); a rejection ends main, and the process
\* with status 1
StatusResponse(ok) ==
    /\ pc = "api-status"
    /\ ApiResponded(FALSE)
    /\ IF ok
       THEN pc' = "api-leagues" /\ exitCode' = exitCode
       ELSE pc' = "exited" /\ exitCode' = 1
    /\ idx' = 1
    /\ UNCHANGED <<resultsFile, rosters, now, results, scraperLocals,
                   leagueStandings, uefaStandings, goalMap>>

\* where the script goes after position i of a list: on, or to the next phase
NextApiStep(i, list, phase, nextPhase) ==
    IF i < Len(list)
    THEN pc' = phase /\ idx' = i + 1
    ELSE pc' = nextPhase /\ idx' = 1

\* fetchAllLeagueStandings: one iteration
LeagueStandingsResponse(ok, entries) ==
    /\ pc = "api-leagues"
    /\ ApiResponded(ok)
    /\ leagueStandings' = IF ok THEN MergeStandings(leagueStandings, entries)
                          ELSE leagueStandings
    /\ NextApiStep(idx, leagueIds, "api-leagues", "api-uefa")
    /\ ApiUntouched
    /\ UNCHANGED <<uefaStandings, goalMap>>

\* fetchUEFAStandings: one iteration
UefaStandingsResponse(ok, entries) ==
    /\ pc = "api-uefa"
    /\ ApiResponded(ok)
    /\ uefaStandings' = IF ok THEN MergeStandings(uefaStandings, entries)
                        ELSE uefaStandings
    /\ NextApiStep(idx, uefaLeagues, "api-uefa", "api-players")
    /\ ApiUntouched
    /\ UNCHANGED <<leagueStandings, goalMap>>

\* fetchPlayerGoals: one iteration; a player without data, or whose request
\* failed, gets 0
PlayerResponse(ok, hasData, statistics) ==
    /\ pc = "api-players"
    /\ ApiResponded(ok)
    /\ goalMap' = Put(goalMap, PLAYER_MAP[idx],
                      IF ok /\ hasData THEN TotalGoals(statistics) ELSE 0)
    /\ NextApiStep(idx, PLAYER_MAP, "api-players", "api-compute")
    /\ ApiUntouched
    /\ UNCHANGED <<leagueStandings, uefaStandings>>

\* sleep(6500) resolves
ApiSleep ==
    /\ Sleep
    /\ UNCHANGED apiVars

\* main, steps 4 and 5: compute, rank, write
UpdateDataWrite ==
    /\ pc = "api-compute"
    /\ awaiting = "nothing"
    /\ results' = UpdateDataResults(rosters, leagueStandings, uefaStandings, goalMap, now)
    /\ resultsFile' = JsonSnapshot(results')
    /\ pc' = "written"
    /\ exitCode' = 0
    /\ UNCHANGED <<rosters, now, idx, scraperLocals, netVars, apiVars>>

\* what the API answers
ApiEntries == FactSeqs({"T1", "T9"}, 0..MaxScraped, 1)
ApiStatistics ==
    UNION {[1..k -> [league : {"Premier League", "UEFA Super Cup"}, goals : 0..MaxScraped]]
           : k \in 0..1}

InitApi ==
    /\ InitScraper
    /\ PureIdle
    /\ web = NoWeb
    /\ InitNet
    /\ script = "none" /\ apiKey = FALSE
    /\ leagueStandings = EmptyMap /\ uefaStandings = EmptyMap /\ goalMap = EmptyMap

NextApi ==
    \/ \E key \in BOOLEAN : StubMain(key) /\ UNCHANGED <<pureVars, web>>
    \/ \E key \in BOOLEAN : UpdateDataStart(key) /\ UNCHANGED <<pureVars, web>>
    \/ ApiGet /\ UNCHANGED <<pureVars, web>>
    \/ \E ok \in BOOLEAN : StatusResponse(ok) /\ UNCHANGED <<pureVars, web>>
    \/ \E e \in ApiEntries : LeagueStandingsResponse(TRUE, e) /\ UNCHANGED <<pureVars, web>>
    \/ LeagueStandingsResponse(FALSE, <<>>) /\ UNCHANGED <<pureVars, web>>
    \/ \E e \in ApiEntries : UefaStandingsResponse(TRUE, e) /\ UNCHANGED <<pureVars, web>>
    \/ UefaStandingsResponse(FALSE, <<>>) /\ UNCHANGED <<pureVars, web>>
    \/ \E hasData \in BOOLEAN, st \in ApiStatistics :
          PlayerResponse(TRUE, hasData, st) /\ UNCHANGED <<pureVars, web>>
    \/ PlayerResponse(FALSE, FALSE, <<>>) /\ UNCHANGED <<pureVars, web>>
    \/ ApiSleep /\ UNCHANGED <<pureVars, web>>
    \/ UpdateDataWrite /\ UNCHANGED <<pureVars, web>>

SpecApi == InitApi /\ [][NextApi]_vars

----------------------------------------------------------------------------
(* Pure-function harness: inputs *)

Milestones == {"winner", "runner_up", "semifinal", "quarterfinal", ""}
Competitions == {"champions_league", "europa_league", "conference_league",
                 "super_cup", ""}
PointInputs == {Num(n) : n \in 0..MaxPts} \cup {JsUndefined}
DomesticCups == {NoCup} \cup {Cup("", m) : m \in Milestones}
UefaCups == {NoCup} \cup {Cup(c, m) : c \in Competitions, m \in Milestones}

TeamDataInputs ==
    [league_points : PointInputs, uefa_league_phase_points : PointInputs,
     domestic_cup : DomesticCups, uefa_cup : UefaCups]

\* rosters.json as the harness reads it
PureRosters ==
    [rosters |->
        << [participant |-> "Ann", teams |-> <<"T1", "T2">>,
            players |-> << [name |-> "P1", active_from_date |-> 1] >>],
           [participant |-> "Bob", teams |-> <<"T3">>,
            players |-> << [name |-> "P2", active_from_date |-> 0],
                           [name |-> "P3", active_from_date |-> 1] >>] >>,
     pool_metadata |-> [season |-> "2025-26"]]

PureTeams == {"T1", "T2", "T3"}
PurePlayers == {"P1", "P2", "P3"}

\* every function from a subset of keys to vals (an object with some keys set)
PartialMaps(keys, vals) == UNION {[d -> vals] : d \in SUBSET keys}

ApiTeamInputs ==
    { [league_points |-> Num(MaxPts), uefa_league_phase_points |-> Num(1),
       domestic_cup |-> Cup("", "winner"), uefa_cup |-> Cup("champions_league", "runner_up")],
      [league_points |-> Num(1), uefa_league_phase_points |-> JsUndefined,
       domestic_cup |-> NoCup, uefa_cup |-> Cup("europa_league", "semifinal")],
      [league_points |-> JsUndefined, uefa_league_phase_points |-> Num(MaxPts),
       domestic_cup |-> Cup("", "semifinal"), uefa_cup |-> NoCup],
      [league_points |-> Num(0), uefa_league_phase_points |-> Num(0),
       domestic_cup |-> Cup("", "quarterfinal"), uefa_cup |-> Cup("super_cup", "winner")] }

Goal(d, m, ty, c) == [date |-> d, minute |-> m, type |-> ty, competition |-> c]

ApiGoalLists ==
    { <<>>,
      << Goal(1, 90, "normal", "Ligue 1") >>,
      << Goal(0, 30, "normal", "Premier League"), Goal(MaxDay, 118, "penalty", "La Liga") >>,
      << Goal(1, 0, "penalty_shootout", "Ligue 1"), Goal(1, 60, "normal", "UEFA Super Cup"),
         Goal(MaxDay, 67, "own_goal", "Serie A") >> }

ApiDataInputs ==
    [teams : PartialMaps(PureTeams, ApiTeamInputs),
     players : PartialMaps(PurePlayers, ApiGoalLists)]

ScraperMapInputs ==
    [teamPoints : PartialMaps(PureTeams, {0, MaxPts}),
     uefaPoints : PartialMaps(PureTeams, {1}),
     playerGoals : PartialMaps(PurePlayers, {1, MaxPts})]

\* totals a pool entry handed to the gate can hold
GateTotals ==
    {JsNull, JsUndefined, JsNaN, JsInfinity} \cup {Num(n) : n \in {-1, 0, MaxPts}}

TeamPoolOf(a, b) ==
    << [participant |-> "Ann", total_points |-> a, rank |-> 1, teams |-> <<>>],
       [participant |-> "Bob", total_points |-> b, rank |-> 2, teams |-> <<>>] >>

GoalsPoolOf(a) ==
    << [participant |-> "Ann", total_goals |-> a, rank |-> 1, players |-> <<>>] >>

GateNewInputs ==
    { [exists |-> TRUE, last_updated |-> 1, season |-> "2025-26",
       team_pool |-> TeamPoolOf(a, b), goals_pool |-> GoalsPoolOf(g)] :
      a \in GateTotals, b \in GateTotals, g \in GateTotals }

GatePreviousInputs ==
    {NoSnapshot} \cup
    { [exists |-> TRUE, last_updated |-> 0, season |-> "2025-26",
       team_pool |-> TeamPoolOf(Num(a), Num(b)), goals_pool |-> GoalsPoolOf(Num(g))] :
      a \in {0, 1}, b \in {0, 1}, g \in {0, 1} }

\* goal events handed to calculatePlayerGoals; an input names its
\* competition by its position in CompetitionNames
GoalTypes == {"normal", "penalty", "own_goal", "penalty_shootout"}
CompetitionNames ==
    <<"Premier League", "UEFA Super Cup", "Super League", "UEFA Champions League",
      "FA Community Shield", "Supercopa de España", "Supercoppa Italiana",
      "Trophée des Champions", "DFL-Supercup", "Trophee des Champions">>

SingleGoals ==
    {Goal(d, m, ty, c) : d \in 0..MaxDay, m \in {45, 118}, ty \in GoalTypes,
                         c \in 1..Len(CompetitionNames)}

PairedGoals ==
    {Goal(d, 118, ty, c) : d \in 0..MaxDay, ty \in {"normal", "own_goal"}, c \in 1..2}

\* the goal events as the API names them
NamedGoals(goals) ==
    [i \in 1..Len(goals) |->
        [goals[i] EXCEPT !.competition = CompetitionNames[goals[i].competition]]]

GoalListInputs ==
    {<<>>} \cup {<<g>> : g \in SingleGoals}
           \cup {<<g, h>> : g \in PairedGoals, h \in PairedGoals}

\* the standings calculatePayouts is applied to: the participants in this
\* input order, which is neither by name nor by total
PayoutNames == <<"Cy", "Ann", "Dee", "Bob">>
StandingsInputs ==
    UNION {[1..n -> 0..MaxPts] : n \in 0..Len(PayoutNames)}
NamedStandings(totals) ==
    [i \in 1..Len(totals) |-> [participant |-> PayoutNames[i], total |-> totals[i]]]

\* pools handed to the ranking step on their own: entries in roster order
\* with any totals, of either pool kind
PoolKinds == {"total_points", "total_goals"}
PoolInputs ==
    PoolKinds \X UNION {[1..n -> 0..MaxPts] : n \in 1..Len(PayoutNames)}
UnrankedPool(kind, totals) ==
    [i \in 1..Len(totals) |->
        IF kind = "total_points"
        THEN [participant |-> PayoutNames[i], total_points |-> Num(totals[i]), rank |-> 0]
        ELSE [participant |-> PayoutNames[i], total_goals |-> Num(totals[i]), rank |-> 0]]

\* club season pages: up to three tables, each a ranked goalscorer table, a
\* table with a position column or a plain one, listing at most one player
\* (a page of three tables starts with a plain table that lists P1);
\* P12 is a player outside the roster whose name holds the name of P1
DigitString(n) == SubSeq(DigitChars, n + 1, n + 1)
TableKinds == {"ranked", "position", "plain"}
ListedPlayers == {"P1", "P3", "P12"}
TableSpecs ==
    [kind : TableKinds, entries : {<<>>} \cup {<<[name |-> p, value |-> g]>> :
                                                  p \in ListedPlayers, g \in {1, 2}}]
ClubPageSpecs ==
    {<<>>} \cup {<<t>> : t \in TableSpecs} \cup {<<t, u>> : t \in TableSpecs, u \in TableSpecs}
    \cup {<<t, u, v>> : t \in {x \in TableSpecs : x.kind = "plain" /\ x.entries # <<>>
                                                   /\ x.entries[1].name = "P1"},
                         u \in TableSpecs, v \in TableSpecs}
TargetLists == {<<>>, <<"P1">>, <<"P3">>, <<"P1", "P3">>}
TableOf(spec) ==
    << [th |-> TRUE,
        cells |-> IF spec.kind = "ranked" THEN <<"Rank", "Player", "Total">>
                  ELSE IF spec.kind = "position" THEN <<"Pos.", "Player", "Total">>
                  ELSE <<"No.", "Player", "Total">>] >>
    \o [i \in 1..Len(spec.entries) |->
           [th |-> FALSE,
            cells |-> <<IF spec.kind = "position" THEN "FW" ELSE "9",
                        spec.entries[i].name, DigitString(spec.entries[i].value)>>]]
TablesOf(page) == [i \in 1..Len(page) |-> TableOf(page[i])]

\* player names as sources write them
SourcePlayerNames == {"P1", "p1", "P. One", "P3", "P12", "One", "P"}

\* team names as sources write them
SourceTeamNames == {"T1", "t1", "T1 F.C.", "T1 FC B", "T1 FC Women", "1 FC", "FC B", "T9"}

\* league page tables: a header row Rank, <name>, Club, <goals> and one or two
\* rows; the second row may lack the rank cell, or the rank and the goals
\* cell, which the row above spans
NameHeaders == {"Player", "PLAYER", "player", "Name", "Scorer"}
GoalsHeaders == {"Goals", "Total"}
RowShapes == {"full", "rankSpanned", "rankAndGoalsSpanned"}
LeagueTableSpecs ==
    [nameHeader : NameHeaders, goalsHeader : GoalsHeaders, firstGoals : {1, 2},
     second : {<<>>} \cup {<<[shape |-> sh, goals |-> g]>> : sh \in RowShapes, g \in {1, 2}}]
LeagueRow(shape, rank, name, goals) ==
    [th |-> FALSE,
     cells |-> IF shape = "full" THEN <<DigitString(rank), name, "T1", DigitString(goals)>>
               ELSE IF shape = "rankSpanned" THEN <<name, "T1", DigitString(goals)>>
               ELSE <<name, "T1">>]
LeagueTable(spec) ==
    << [th |-> TRUE, cells |-> <<"Rank", spec.nameHeader, "Club", spec.goalsHeader>>],
       LeagueRow("full", 1, "P1", spec.firstGoals) >>
    \o [i \in 1..Len(spec.second) |->
           LeagueRow(spec.second[i].shape, 2, "P3", spec.second[i].goals)]

\* standings tables: a header row Pos, <name>, <points> and one row
StandingsTableSpecs ==
    [nameHeader : {"Team", "Name", "Club"}, ptsHeader : {"Pts", "Points"},
     team : {"T1", "T9"}, pts : {0, 1}]
StandingsTable(spec) ==
    << [th |-> TRUE, cells |-> <<"Pos", spec.nameHeader, spec.ptsHeader>>],
       [th |-> FALSE, cells |-> <<"1", spec.team, DigitString(spec.pts)>>] >>

\* club page tables whose competition headers each span an appearances and
\* a goals cell: a header row <first>, Player, League, Cup, Total, with or
\* without a row of Apps and Goals sub-headers, and the row of one player
\* whose totals are the sums over the two competitions
CompetitionCells == [apps : {1, 2}, goals : {0, 1}]
InflatedTableSpecs ==
    [ranked : BOOLEAN, subHeaders : BOOLEAN, league : CompetitionCells, cup : CompetitionCells]
InflatedTable(spec) ==
    << [th |-> TRUE,
        cells |-> <<IF spec.ranked THEN "Rank" ELSE "No.", "Player", "League", "Cup", "Total">>] >>
    \o (IF spec.subHeaders
        THEN << [th |-> TRUE, cells |-> <<"Apps", "Goals", "Apps", "Goals", "Apps", "Goals">>] >>
        ELSE <<>>)
    \o << [th |-> FALSE,
           cells |-> <<"9", "P1",
                       DigitString(spec.league.apps), DigitString(spec.league.goals),
                       DigitString(spec.cup.apps), DigitString(spec.cup.goals),
                       DigitString(spec.league.apps + spec.cup.apps),
                       DigitString(spec.league.goals + spec.cup.goals)>>] >>

\* the pool of results.json the view is handed: entries with the total under
\* the key of the pool
ViewPool(kind, totals) ==
    [i \in 1..Len(totals) |->
        IF kind = "total_points"
        THEN [participant |-> PayoutNames[i], total_points |-> totals[i]]
        ELSE [participant |-> PayoutNames[i], total_goals |-> totals[i]]]

ScraperIdle ==
    /\ InitScraper
    /\ web = NoWeb
    /\ InitNet
    /\ InitScraperScript

InitPure ==
    /\ ScraperIdle
    /\ returned = FALSE
    /\ res = <<>>
    /\ \/ fn = "calculateTeamPoints" /\ arg \in TeamDataInputs
       \/ fn = "computeResults" /\ arg \in ApiDataInputs
       \/ fn = "scraperCompute" /\ arg \in ScraperMapInputs
       \/ fn = "validateResults" /\ arg \in GateNewInputs \X GatePreviousInputs
       \/ fn = "calculatePlayerGoals" /\ arg \in GoalListInputs \X (0..MaxDay)
       \/ fn = "calculatePayouts" /\ arg \in StandingsInputs
       \/ fn = "assignRanks" /\ arg \in PoolInputs
       \/ fn = "parseTeamGoalscorers" /\ arg \in ClubPageSpecs \X TargetLists
       \/ fn = "matchPlayerName" /\ arg \in SourcePlayerNames
       \/ fn = "matchTeamName" /\ arg \in SourceTeamNames
       \/ fn = "parseTopScorers" /\ arg \in LeagueTableSpecs
       \/ fn = "parseClubTable" /\ arg \in LeagueTableSpecs
       \/ fn = "parseStandings" /\ arg \in StandingsTableSpecs
       \/ fn = "parseInflatedTable" /\ arg \in InflatedTableSpecs
       \/ fn = "calculatePayoutsCall" /\ arg \in StandingsInputs
       \/ fn = "computePoolPayouts" /\ arg \in PoolKinds \X StandingsInputs

ApplyCalculateTeamPoints ==
    /\ fn = "calculateTeamPoints" /\ ~returned
    /\ res' = calculateTeamPoints(arg)
    /\ returned' = TRUE
    /\ UNCHANGED <<fn, arg, scraperVars, otherVars>>

ApplyComputeResults ==
    /\ fn = "computeResults" /\ ~returned
    /\ res' = computeResults(PureRosters, arg, 1)
    /\ returned' = TRUE
    /\ UNCHANGED <<fn, arg, scraperVars, otherVars>>

ApplyScraperCompute ==
    /\ fn = "scraperCompute" /\ ~returned
    /\ res' = ScraperCompute(PureRosters, arg.teamPoints, arg.uefaPoints, arg.playerGoals, 1)
    /\ returned' = TRUE
    /\ UNCHANGED <<fn, arg, scraperVars, otherVars>>

ApplyValidateResults ==
    /\ fn = "validateResults" /\ ~returned
    /\ res' = validateResults(arg[1], arg[2])
    /\ returned' = TRUE
    /\ UNCHANGED <<fn, arg, scraperVars, otherVars>>

ApplyCalculatePlayerGoals ==
    /\ fn = "calculatePlayerGoals" /\ ~returned
    /\ res' = calculatePlayerGoals(NamedGoals(arg[1]), arg[2])
    /\ returned' = TRUE
    /\ UNCHANGED <<fn, arg, scraperVars, otherVars>>

ApplyCalculatePayouts ==
    /\ fn = "calculatePayouts" /\ ~returned
    /\ res' = calculatePayouts(NamedStandings(arg))
    /\ returned' = TRUE
    /\ UNCHANGED <<fn, arg, scraperVars, otherVars>>

ApplyAssignRanks ==
    /\ fn = "assignRanks" /\ ~returned
    /\ res' = AssignRanks(UnrankedPool(arg[1], arg[2]))
    /\ returned' = TRUE
    /\ UNCHANGED <<fn, arg, scraperVars, otherVars>>

ApplyParseTeamGoalscorers ==
    /\ fn = "parseTeamGoalscorers" /\ ~returned
    /\ res' = parseTeamGoalscorers(TablesOf(arg[1]), arg[2])
    /\ returned' = TRUE
    /\ UNCHANGED <<fn, arg, scraperVars, otherVars>>

ApplyMatchPlayerName ==
    /\ fn = "matchPlayerName" /\ ~returned
    /\ res' = matchPlayerName(arg)
    /\ returned' = TRUE
    /\ UNCHANGED <<fn, arg, scraperVars, otherVars>>

ApplyMatchTeamName ==
    /\ fn = "matchTeamName" /\ ~returned
    /\ res' = matchTeamName(arg)
    /\ returned' = TRUE
    /\ UNCHANGED <<fn, arg, scraperVars, otherVars>>

ApplyParseTopScorers ==
    /\ fn = "parseTopScorers" /\ ~returned
    /\ res' = parseTopScorers(<<LeagueTable(arg)>>)
    /\ returned' = TRUE
    /\ UNCHANGED <<fn, arg, scraperVars, otherVars>>

\* parseTeamGoalscorers on a page holding one table, with no target names
ApplyParseClubTable ==
    /\ fn = "parseClubTable" /\ ~returned
    /\ res' = parseTeamGoalscorers(<<LeagueTable(arg)>>, <<>>)
    /\ returned' = TRUE
    /\ UNCHANGED <<fn, arg, scraperVars, otherVars>>

ApplyParseStandings ==
    /\ fn = "parseStandings" /\ ~returned
    /\ res' = parseStandingsPage(<<StandingsTable(arg)>>)
    /\ returned' = TRUE
    /\ UNCHANGED <<fn, arg, scraperVars, otherVars>>

\* parseTeamGoalscorers on a page holding one table with sub-columns
ApplyParseInflatedTable ==
    /\ fn = "parseInflatedTable" /\ ~returned
    /\ res' = parseTeamGoalscorers(<<InflatedTable(arg)>>, <<>>)
    /\ returned' = TRUE
    /\ UNCHANGED <<fn, arg, scraperVars, otherVars>>

\* calculatePayouts(standings), with the caller's array as the call leaves it
ApplyCalculatePayoutsCall ==
    /\ fn = "calculatePayoutsCall" /\ ~returned
    /\ res' = [payouts |-> calculatePayouts(NamedStandings(arg)),
               standings |-> StandingsAfterPayouts(NamedStandings(arg))]
    /\ returned' = TRUE
    /\ UNCHANGED <<fn, arg, scraperVars, otherVars>>

\* the payouts the view shows for a pool, next to those of the rules engine
\* for the same totals
ApplyComputePoolPayouts ==
    /\ fn = "computePoolPayouts" /\ ~returned
    /\ res' = [shown |-> computePoolPayouts(ViewPool(arg[1], arg[2]), arg[1]),
               rules |-> calculatePayouts(NamedStandings(arg[2]))]
    /\ returned' = TRUE
    /\ UNCHANGED <<fn, arg, scraperVars, otherVars>>

NextPure ==
    \/ ApplyComputePoolPayouts
    \/ ApplyCalculatePayoutsCall
    \/ ApplyParseInflatedTable
    \/ ApplyParseStandings
    \/ ApplyParseClubTable
    \/ ApplyParseTopScorers
    \/ ApplyMatchTeamName
    \/ ApplyMatchPlayerName
    \/ ApplyParseTeamGoalscorers
    \/ ApplyAssignRanks
    \/ ApplyCalculatePayouts
    \/ ApplyCalculatePlayerGoals
    \/ ApplyCalculateTeamPoints
    \/ ApplyComputeResults
    \/ ApplyScraperCompute
    \/ ApplyValidateResults

SpecPure == InitPure /\ [][NextPure]_vars

----------------------------------------------------------------------------
(* Claims about the rules engine *)

C10_TotalsAreBreakdownSums ==
    (fn \in {"computeResults", "scraperCompute"} /\ returned) =>
        /\ \A i \in 1..Len(res.team_pool) :
              LET e == res.team_pool[i]
              IN  e.total_points =
                     Num(SumSeq([j \in 1..Len(e.teams) |->
                            e.teams[j].league_points + e.teams[j].uefa_points
                            + e.teams[j].domestic_cup_points]))
        /\ \A i \in 1..Len(res.goals_pool) :
              LET e == res.goals_pool[i]
              IN  e.total_goals =
                     Num(SumSeq([j \in 1..Len(e.players) |-> e.players[j].goals]))

\* C10 witness: a computeResults entry with two teams, a UEFA cup bonus and a
\* domestic cup bonus in its breakdown
C10_Witness ==
    /\ fn = "computeResults" /\ returned
    /\ \E i \in 1..Len(res.team_pool) :
          /\ Len(res.team_pool[i].teams) = 2
          /\ res.team_pool[i].teams[1].uefa_points = 1 + 15
          /\ res.team_pool[i].teams[1].domestic_cup_points = 15
          /\ res.team_pool[i].teams[2].league_points = 1
          /\ res.team_pool[i].total_points.n > 30
    /\ \E i \in 1..Len(res.goals_pool) :
          Len(res.goals_pool[i].players) = 2 /\ res.goals_pool[i].total_goals.n >= 2

\* C4: validateResults returns valid = false whenever any entry of team_pool
\* or goals_pool has a total that is missing (null or undefined), NaN,
\* negative or not finite (positive infinity); on a first run (no previous
\* snapshot) it returns valid = true only if every total is a present,
\* non-negative, finite number.
C4_GateRejectsEveryBadTotal ==
    (fn = "validateResults" /\ returned) =>
        LET new == arg[1]
            totals == {new.team_pool[i].total_points : i \in 1..Len(new.team_pool)}
                      \cup {new.goals_pool[i].total_goals : i \in 1..Len(new.goals_pool)}
            good == \A v \in totals : v.t = "number" /\ v.n >= 0
        IN  /\ ~good => ~res.valid
            /\ (~arg[2].exists /\ res.valid) => good

----------------------------------------------------------------------------
(* Claims about the scraper pipeline *)

\* the total of the entry of a participant in a pool, as a number
NumTotal(entry) == TotalOf(entry).n

\* every participant of both pools has, in newPool, a numeric total that is
\* not below its numeric total in oldPool
NotLowered(oldPool, newPool) ==
    \A i \in 1..Len(oldPool), j \in 1..Len(newPool) :
        oldPool[i].participant = newPool[j].participant
            => /\ TotalOf(oldPool[i]).t = "number"
               /\ TotalOf(newPool[j]).t = "number"
               /\ NumTotal(newPool[j]) >= NumTotal(oldPool[i])

C2_GateFailureLeavesSnapshot ==
    GateRejected
        => /\ pc = "aborted"
           /\ exitCode = 1
           /\ resultsFile = previousResults

\* C2 witness: a run over an existing snapshot was rejected by the gate.
C2_Witness ==
    /\ pc = "aborted"
    /\ previousResults.exists
    /\ GateRejected
    /\ validation[1].errors # <<>>

\* the documents a finished fetch phase has asked for, in the configured order
ConfiguredDocuments ==
    LEAGUE_PAGES \o UEFA_PAGES \o [i \in 1..Len(urlToPlayers) |-> urlToPlayers[i].url]

\* a step in which fetchPage was called and rejected
FailedFetchStep == Len(fetched') = Len(fetched) + 1 /\ ~lastFetchOk'

\* C6: a failed fetch of a league, UEFA or club page leaves teamPoints,
\* uefaPoints and playerGoals as they were and the run goes on; by the time
\* the run computes its results, every configured document has been asked
\* for, once, in the configured order.
C6_FetchFailureIsolated ==
    /\ [][ FailedFetchStep
             => /\ UNCHANGED <<teamPoints, uefaPoints, playerGoals>>
                /\ pc' \in {"league", "uefa", "club", "gate"}
                /\ exitCode' = -1 ]_vars
    /\ [](pc \in {"gate", "write", "written", "aborted"} => fetched = ConfiguredDocuments)

\* C6 witness: a run reached the gate after a league page failed although an
\* earlier page had filled the maps, and the last page it asked for failed too.
C6_Witness ==
    /\ pc = "gate"
    /\ ~lastFetchOk
    /\ Len(fetched) = Len(LEAGUE_PAGES) + Len(UEFA_PAGES) + 1
    /\ "T1" \in DOMAIN teamPoints
    /\ "P1" \notin DOMAIN playerGoals

\* a run over an existing snapshot has passed through the gate
SecondRunJudged == pc \in {"write", "written", "aborted"} /\ previousResults.exists

\* C5 (as stated): run again over unchanged pages and an unchanged roster,
\* the scraper passes the gate with a Pool Result identical to the persisted
\* one: last_updated, season, team_pool and goals_pool.
C5_SecondRunIdentical ==
    SecondRunJudged
        => /\ GateApproved
           /\ JsonSnapshot(results) = previousResults

\* C5 (amended): run again over unchanged pages and an unchanged roster, the
\* scraper passes the gate with a Pool Result whose season, team_pool and
\* goals_pool are those of the persisted one; last_updated is the time of the
\* later run.
C5_SecondRunSamePools ==
    SecondRunJudged
        => /\ GateApproved
           /\ results.season = previousResults.season
           /\ JsonPool(results.team_pool) = previousResults.team_pool
           /\ JsonPool(results.goals_pool) = previousResults.goals_pool
           /\ results.last_updated > previousResults.last_updated

\* C5 witness: a second run has written again, over pages that gave both
\* participants a total above zero.
C5_Witness ==
    /\ pc = "written"
    /\ previousResults.exists
    /\ \A i \in 1..Len(resultsFile.team_pool) :
          resultsFile.team_pool[i].participant = "Ann"
              => NumTotal(resultsFile.team_pool[i]) > 0
    /\ \A i \in 1..Len(resultsFile.goals_pool) :
          resultsFile.goals_pool[i].participant = "Bob"
              => NumTotal(resultsFile.goals_pool[i]) > 0
    /\ Len(resultsFile.team_pool) = 2

\* the requests whose response the script is waiting for
InFlight == IF awaiting = "response" THEN 1 ELSE 0

\* C7: at most one request is in flight, and the request in flight was
\* started only after the delay had run since the completion of the request
\* before it, whether that one succeeded, failed or answered with a redirect.
C7_DelayBeforeEveryRequest ==
    /\ InFlight <= 1
    /\ awaiting = "response" => delayedStart

\* C3: whichever pipeline script has written results.json in its run, the
\* integrity gate was called in that run and approved the result.
C3_WriteOnlyAfterGate ==
    pc = "written" => GateApproved

\* C8: when an API script is started without its credential, the process
\* ends with a non-zero exit status, has issued no request, and results.json
\* is what it was.
C8_NoCredentialIsFatal ==
    [][ script' \in {"update-data", "update-data-stub"} /\ ~apiKey'
          => /\ pc' = "exited"
             /\ exitCode' > 0
             /\ requestCount' = 0
             /\ resultsFile' = resultsFile ]_vars

----------------------------------------------------------------------------
(* Claims about goal eligibility, payouts and ranks *)

\* the competition names of the inputs that hold a supercup keyword when
\* letter case is ignored
SupercupNames ==
    {"UEFA Super Cup", "FA Community Shield", "Supercopa de España",
     "Supercoppa Italiana", "Trophée des Champions", "DFL-Supercup"}

EligibleGoal(goal, activeFromDate) ==
    /\ goal.date >= activeFromDate
    /\ goal.type \in {"normal", "penalty"}
    /\ goal.competition \notin SupercupNames

\* C11: calculatePlayerGoals returns the number of goal events dated on or
\* after active_from_date, of type normal or penalty, in a competition whose
\* name holds no supercup keyword in any letter case; the minute plays no part.
C11_EligibleGoalsCounted ==
    fn = "calculatePlayerGoals" /\ returned
        => res = Cardinality({i \in 1..Len(arg[1]) :
                                 EligibleGoal(NamedGoals(arg[1])[i], arg[2])})

\* C11 witness: of two goals in extra time, the one dated on the
\* active_from_date is counted and the own goal is not.
C11_Witness ==
    /\ fn = "calculatePlayerGoals" /\ returned
    /\ Len(arg[1]) = 2
    /\ arg[1][1].date = arg[2] /\ arg[2] > 0
    /\ arg[1][1].minute > 90 /\ arg[1][1].type = "normal"
    /\ arg[1][2].type = "own_goal"
    /\ res = 1


\* the standings of a returned calculatePayouts call, and who leads them
PayoutsReturned == fn = "calculatePayouts" /\ returned /\ Len(arg) >= 1
TopTotal == CHOOSE t \in {arg[i] : i \in 1..Len(arg)} : \A i \in 1..Len(arg) : arg[i] <= t
Leaders == {i \in 1..Len(arg) : arg[i] = TopTotal}
Chasers == {i \in 1..Len(arg) : arg[i] < TopTotal}
BestChasers == {i \in Chasers : \A j \in Chasers : arg[j] <= arg[i]}
\* the amount the returned list gives to the participant at place i of the input
PayoutTo(i) ==
    LET k == CHOOSE j \in 1..Len(res) : res[j].participant = PayoutNames[i]
    IN  res[k].payout
OnePayoutEach ==
    /\ Len(res) = Len(arg)
    /\ \A i \in 1..Len(arg) : Cardinality({j \in 1..Len(res) : res[j].participant = PayoutNames[i]}) = 1
\* the names of PayoutNames in dictionary order
NameOrder == <<"Ann", "Bob", "Cy", "Dee">>
NamePlace(name) == CHOOSE k \in 1..Len(NameOrder) : NameOrder[k] = name
FirstByName(S) == CHOOSE i \in S : \A j \in S : NamePlace(PayoutNames[i]) <= NamePlace(PayoutNames[j])

\* C12: with exactly one participant at the maximum total, that participant
\* is paid 250, exactly one participant holding the next-highest total is
\* paid 50 (when there is any other participant), and everyone else 0.
C12_ClearFirstPayouts ==
    PayoutsReturned /\ Cardinality(Leaders) = 1
        => /\ OnePayoutEach
           /\ \A i \in Leaders : PayoutTo(i) = 250
           /\ Chasers # {} => \E i \in BestChasers :
                  /\ PayoutTo(i) = 50
                  /\ \A j \in Chasers \ {i} : PayoutTo(j) = 0
C12_Witness ==
    /\ PayoutsReturned /\ arg = <<1, 2, 1, 0>>
    /\ PayoutTo(2) = 250 /\ PayoutTo(1) = 50 /\ PayoutTo(3) = 0 /\ PayoutTo(4) = 0

\* C13: with exactly two participants tied at the maximum total, each of the
\* two is paid 150 and every other participant 0.
C13_TwoWayTieSplit ==
    PayoutsReturned /\ Cardinality(Leaders) = 2
        => /\ OnePayoutEach
           /\ \A i \in Leaders : PayoutTo(i) = 150
           /\ \A i \in Chasers : PayoutTo(i) = 0
C13_Witness ==
    /\ PayoutsReturned /\ arg = <<1, 2, 1, 2>>
    /\ PayoutTo(2) = 150 /\ PayoutTo(4) = 150 /\ PayoutTo(1) = 0 /\ PayoutTo(3) = 0

C15_ThreeWayTieSplit ==
    PayoutsReturned /\ Cardinality(Leaders) = 3
        => \A i \in Leaders : PayoutTo(i) = 100


\* the ranked pools a returned call has computed, each with the participants
\* in the order they were given to the ranking step
RankedPools ==
    IF ~returned THEN {}
    ELSE IF fn = "assignRanks"
         THEN {[pool |-> res, order |-> [i \in 1..Len(arg[2]) |-> PayoutNames[i]]]}
    ELSE IF fn \in {"computeResults", "scraperCompute"}
         THEN LET order == [i \in 1..Len(PureRosters.rosters) |-> PureRosters.rosters[i].participant]
              IN  {[pool |-> res.team_pool, order |-> order],
                   [pool |-> res.goals_pool, order |-> order]}
    ELSE {}
\* the place of a pool entry in the input order
PlaceIn(order, entry) == CHOOSE k \in 1..Len(order) : order[k] = entry.participant

\* C16: in every computed pool with N >= 1 entries the ranks are exactly
\* 1..N, each used once, also when totals are equal.
C16_RanksDense ==
    \A p \in RankedPools :
        LET pool == p.pool
        IN  /\ Len(pool) = Len(p.order)
            /\ {pool[i].rank : i \in 1..Len(pool)} = 1..Len(pool)
            /\ \A i, j \in 1..Len(pool) : pool[i].rank = pool[j].rank => i = j
C16_Witness ==
    /\ fn = "assignRanks" /\ returned /\ arg[2] = <<1, 1, 2, 1>>
    /\ {res[i].rank : i \in 1..4} = 1..4

\* C17: ranks follow descending total: a strictly larger total has a smaller
\* rank, and entries with equal totals keep their input (roster) order and
\* take consecutive ranks, never a shared one.
C17_RanksFollowTotals ==
    \A p \in RankedPools :
        LET pool == p.pool
        IN  \A i, j \in 1..Len(pool) :
                /\ TotalOf(pool[i]).n > TotalOf(pool[j]).n => pool[i].rank < pool[j].rank
                /\ (TotalOf(pool[i]).n = TotalOf(pool[j]).n
                      /\ PlaceIn(p.order, pool[i]) < PlaceIn(p.order, pool[j]))
                   => /\ pool[i].rank < pool[j].rank
                      /\ \A k \in 1..Len(pool) :
                            pool[i].rank < pool[k].rank /\ pool[k].rank < pool[j].rank
                                => TotalOf(pool[k]).n = TotalOf(pool[i]).n
C17_Witness ==
    /\ fn = "assignRanks" /\ returned /\ arg[2] = <<1, 2, 1, 1>>
    /\ [i \in 1..4 |-> res[i].participant] = <<"Ann", "Cy", "Dee", "Bob">>
    /\ [i \in 1..4 |-> res[i].rank] = <<1, 2, 3, 4>>


----------------------------------------------------------------------------
(* Claims about the aggregation of one run *)

LeaguePhaseOver == pc \in {"uefa", "club", "gate", "write", "written", "aborted"}
RunOver == pc \in {"gate", "write", "written", "aborted"}

\* the standings entries the phase 1 loop has been handed, page after page
RECURSIVE ProcessedStandings(_)
ProcessedStandings(n) ==
    IF n = 0 THEN <<>>
    ELSE ProcessedStandings(n - 1)
         \o (IF web[LEAGUE_PAGES[n]].ok THEN web[LEAGUE_PAGES[n]].standings ELSE <<>>)

\* the standings rows of the league pages read, each with the team its name
\* resolves to, page after page
RECURSIVE StandingsRowsRead(_)
StandingsRowsRead(n) ==
    IF n = 0 THEN <<>>
    ELSE LET page == web[LEAGUE_PAGES[n]]
         IN  StandingsRowsRead(n - 1)
             \o (IF page.ok
                 THEN [i \in 1..Len(page.rows) |->
                          [name |-> matchTeamName(page.rows[i].name), value |-> page.rows[i].value]]
                 ELSE <<>>)

FactsFor(facts, name) == SelectSeq(facts, LAMBDA f : f.name = name)

RECURSIVE SumValues(_)
SumValues(facts) == IF facts = <<>> THEN 0 ELSE Head(facts).value + SumValues(Tail(facts))

\* C18: at the end of the league phase a roster team's league points are the
\* value of the most recently processed standings fact that resolved to the
\* team: a later fact replaces an earlier one and values are never summed.
C18_LeaguePointsLastFact ==
    LeaguePhaseOver =>
        \A t \in RosterTeams(rosters) :
            LET facts == FactsFor(ProcessedStandings(Len(LEAGUE_PAGES)), t)
            IN  IF facts = <<>> THEN t \notin DOMAIN teamPoints
                ELSE teamPoints[t] = facts[Len(facts)].value
C18_Witness ==
    /\ LeaguePhaseOver
    /\ Len(web["L1"].standings) = 2
    /\ web["L1"].standings[1] = [name |-> "T1", value |-> 0]
    /\ web["L1"].standings[2] = [name |-> "T1", value |-> 1]
    /\ web["L2"].standings = << [name |-> "T1", value |-> 1] >>
    /\ teamPoints["T1"] = 1

\* C19: standings points are first-writer-wins: once a value is recorded for
\* a team in a run, a later standings fact for the same team (a later row,
\* table or document) does not replace it.
C19_LeaguePointsFirstFact ==
    LeaguePhaseOver =>
        \A t \in RosterTeams(rosters) :
            LET facts == FactsFor(StandingsRowsRead(Len(LEAGUE_PAGES)), t)
            IN  facts # <<>> => t \in DOMAIN teamPoints /\ teamPoints[t] = facts[1].value

\* the scorer entries resolved to a player on the pages of a list
RECURSIVE ScorerFactsOn(_, _)
ScorerFactsOn(docs, player) ==
    IF docs = <<>> THEN <<>>
    ELSE (IF web[Head(docs)].ok THEN FactsFor(web[Head(docs)].scorers, player) ELSE <<>>)
         \o ScorerFactsOn(Tail(docs), player)

\* C20 as stated: at the end of a run a roster player's goals are the sum of
\* the contributions resolved to the player over every source document of
\* the run, the club season pages included.
C20_GoalsSumOverAllDocuments ==
    RunOver =>
        \A p \in Range(RosterPlayers(rosters)) :
            Lookup(playerGoals, p, 0) = SumValues(ScorerFactsOn(fetched, p))

\* C20 amended: the goals are the sum of the contributions resolved to the
\* player over the league and UEFA pages; the club season page counts only
\* for a player with no such contribution, and then as the first entry of
\* that page resolved to the player.
C20_GoalsSumOrClubFallback ==
    RunOver =>
        \A p \in Range(RosterPlayers(rosters)) :
            LET listed == ScorerFactsOn(LEAGUE_PAGES \o UEFA_PAGES, p)
                club == IF p \in DOMAIN PLAYER_TEAM_MAP
                        THEN ScorerFactsOn(<<PLAYER_TEAM_MAP[p]>>, p) ELSE <<>>
            IN  IF listed # <<>> THEN playerGoals[p] = SumValues(listed)
                ELSE IF club # <<>> THEN playerGoals[p] = club[1].value
                ELSE p \notin DOMAIN playerGoals
C20_Witness ==
    /\ RunOver
    /\ fetched = <<"L1", "L2", "U1", "C1">>
    /\ web["L1"].scorers = << [name |-> "P1", value |-> 1] >>
    /\ web["U1"].scorers = << [name |-> "P1", value |-> 1] >>
    /\ web["C1"].scorers = << [name |-> "P1", value |-> 1], [name |-> "P3", value |-> 1] >>
    /\ playerGoals["P1"] = 2 /\ playerGoals["P3"] = 1


----------------------------------------------------------------------------
(* Claims about the parsers and the name matching *)

\* the tables of the parsed club page in an order: first those of the kinds
\* of `first`, then those of `second`, then the rest, each group in document order
TableOrder(first, second) ==
    LET page == arg[1]
        at(kinds) == SelectSeq([i \in 1..Len(page) |-> i], LAMBDA i : page[i].kind \in kinds)
    IN  at(first) \o at(second) \o at(TableKinds \ (first \cup second))

\* every name of the returned scorers has the value of the first table of
\* the order that lists it
FirstListingKept(order) ==
    \A k \in 1..Len(res) :
        LET listing == SelectSeq(order, LAMBDA i :
                           \E e \in 1..Len(arg[1][i].entries) : arg[1][i].entries[e].name = res[k].name)
        IN  /\ listing # <<>>
            /\ res[k].value = arg[1][listing[1]].entries[1].value

\* C21 as stated: within one club page the value of the first table
\* processed is kept, ranked goalscorer tables being processed before the
\* squad tables and otherwise in document order.
C21_FirstTableInDocumentOrder ==
    fn = "parseTeamGoalscorers" /\ returned => FirstListingKept(TableOrder({"ranked"}, {}))

\* C21 amended: the value of the first table processed is kept, and a later
\* table neither replaces it nor adds to it; ranked goalscorer tables are
\* processed first, then tables with a position column, then the others,
\* in document order within each group.
C21_FirstTableProcessedKept ==
    fn = "parseTeamGoalscorers" /\ returned
        => FirstListingKept(TableOrder({"ranked"}, {"position"}))
C21_Witness ==
    /\ fn = "parseTeamGoalscorers" /\ returned
    /\ arg[2] = <<"P3">>
    /\ Len(arg[1]) = 3
    /\ arg[1][1] = [kind |-> "plain", entries |-> <<[name |-> "P1", value |-> 1]>>]
    /\ arg[1][2] = [kind |-> "position", entries |-> <<[name |-> "P1", value |-> 2]>>]
    /\ arg[1][3] = [kind |-> "ranked", entries |-> <<[name |-> "P1", value |-> 2]>>]
    /\ res = <<[name |-> "P1", value |-> 2]>>


\* the entry of a participant in a pool of the computed results
PoolEntry(pool, participant) ==
    pool[CHOOSE i \in 1..Len(pool) : pool[i].participant = participant]

\* C22: a roster team or player matched by no source fact of the run is in
\* the computed results with 0 for league_points, uefa_points,
\* domestic_cup_points and goals, and the run is ended by nothing but the gate.
C22_UnmatchedEntitiesAreZero ==
    /\ pc = "aborted" => validation # NotValidated
    /\ pc \in {"write", "written", "aborted"} =>
        \A r \in 1..Len(rosters.rosters) :
            LET roster == rosters.rosters[r]
                teams == PoolEntry(results.team_pool, roster.participant).teams
                players == PoolEntry(results.goals_pool, roster.participant).players
            IN  /\ Len(teams) = Len(roster.teams)
                /\ Len(players) = Len(roster.players)
                /\ \A i \in 1..Len(roster.teams) :
                      /\ teams[i].name = roster.teams[i]
                      /\ roster.teams[i] \notin DOMAIN teamPoints => teams[i].league_points = 0
                      /\ roster.teams[i] \notin DOMAIN uefaPoints => teams[i].uefa_points = 0
                      /\ teams[i].domestic_cup_points = 0
                /\ \A i \in 1..Len(roster.players) :
                      /\ players[i].name = roster.players[i].name
                      /\ roster.players[i].name \notin DOMAIN playerGoals => players[i].goals = 0
C22_Witness ==
    /\ pc = "written"
    /\ teamPoints = EmptyMap /\ uefaPoints = EmptyMap /\ playerGoals = EmptyMap
    /\ PoolEntry(results.team_pool, "Ann").teams[1].league_points = 0
    /\ PoolEntry(results.goals_pool, "Bob").players[1].goals = 0
    /\ \E i \in 1..Len(fetched) : fetched[i] \in ClubUrls


\* C23: player names are never matched by substring: matchPlayerName and the
\* target-found check of the club page parser decide by equality of the
\* normalised names only, so the parser leaves a candidate table unread only
\* when every target is listed under a name equal to its own.
C23_PlayersMatchedExactlyOnly ==
    /\ fn = "matchPlayerName" /\ returned /\ res # NoMatch =>
          \E i \in 1..Len(PLAYER_ALIASES) :
              /\ PLAYER_ALIASES[i].rosterName = res
              /\ normalize(arg) \in {normalize(PLAYER_ALIASES[i].rosterName)}
                     \cup {normalize(PLAYER_ALIASES[i].aliases[a]) :
                              a \in 1..Len(PLAYER_ALIASES[i].aliases)}
    /\ fn = "parseTeamGoalscorers" /\ returned =>
          LET unread == {i \in 1..Len(arg[1]) :
                            /\ arg[1][i].entries # <<>>
                            /\ \A k \in 1..Len(res) : res[k].name # arg[1][i].entries[1].name}
          IN  unread # {} =>
                  \A t \in 1..Len(arg[2]) :
                      \E k \in 1..Len(res) : normalize(res[k].name) = normalize(arg[2][t])


\* the names of a TEAM_ALIASES entry, normalised
TeamEntryNames(i) ==
    {normalize(TEAM_ALIASES[i].aliases[a]) : a \in 1..Len(TEAM_ALIASES[i].aliases)}
FirstEntry(S) == CHOOSE i \in S : \A j \in S : i <= j

\* C24: an exact match on any entry wins over a substring match; without an
\* exact match matchTeamName returns the first entry with an alias longer
\* than the threshold that is contained in the normalised raw name or
\* contains it (the containment test is symmetric).
C24_TeamSubstringSymmetric ==
    fn = "matchTeamName" /\ returned =>
        LET raw == normalize(arg)
            exact == {i \in 1..Len(TEAM_ALIASES) :
                         raw \in TeamEntryNames(i) \cup {normalize(TEAM_ALIASES[i].rosterName)}}
            within == {i \in 1..Len(TEAM_ALIASES) :
                          \E a \in TeamEntryNames(i) :
                              Len(a) > AliasThreshold /\ (includes(raw, a) \/ includes(a, raw))}
        IN  res = IF exact # {} THEN TEAM_ALIASES[FirstEntry(exact)].rosterName
                  ELSE IF within # {} THEN TEAM_ALIASES[FirstEntry(within)].rosterName
                  ELSE NoMatch


\* a header that reads Player or Name in any letter case
NameColumn(header) == toLowerCase(header) \in {"player", "name"}

\* C25: in every parser (standings, top scorers, club page) a table without
\* a name column (Player or Name in any letter case) contributes no facts,
\* and a header reading Player or Name in any letter case makes a table
\* eligible: with the goals or points column the parser reads and a full
\* first row, the table contributes facts.
C25_NameColumnDecidesEligibility ==
    /\ fn \in {"parseTopScorers", "parseClubTable"} /\ returned =>
          /\ ~NameColumn(arg.nameHeader) => res = <<>>
          /\ /\ NameColumn(arg.nameHeader)
             /\ arg.goalsHeader = (IF fn = "parseTopScorers" THEN "Goals" ELSE "Total")
             => res # <<>>
    /\ fn = "parseStandings" /\ returned =>
          /\ ~NameColumn(arg.nameHeader) => res = <<>>
          /\ NameColumn(arg.nameHeader) /\ arg.ptsHeader = "Pts" => res # <<>>

\* the cell of a row at a header index moved left by the cells the row lacks
OffsetIndex(logical, headerCount, cellCount) == logical - Max(0, headerCount - cellCount)

\* C26: a row with fewer cells than headers has its name cell and its goals
\* cell read at (header index - offset), offset = max(0, headerCount -
\* rowCellCount), in the ranked scorer parser of club pages and in the league
\* top scorer parser: a second row without its rank cell yields the player
\* and the goals it lists, after the fact of the full first row.
C26_ShortRowsReadAtOffset ==
    /\ fn \in {"parseTopScorers", "parseClubTable"} /\ returned
    /\ NameColumn(arg.nameHeader)
    /\ res # <<>>
    /\ arg.second # <<>>
    /\ arg.second[1].shape = "rankSpanned"
    => LET table == LeagueTable(arg)
           cells == table[3].cells
           headerCount == Len(table[1].cells)
           nameAt == OffsetIndex(1, headerCount, Len(cells))
           goalsAt == OffsetIndex(3, headerCount, Len(cells))
       IN  /\ nameAt \in 0..(Len(cells) - 1)
           /\ goalsAt \in 0..(Len(cells) - 1)
           /\ res = << [name |-> "P1", value |-> arg.firstGoals],
                       [name |-> CellAt(cells, nameAt),
                        value |-> ParseDigits(CellAt(cells, goalsAt))] >>


\* the goals cell of the header at index h when every header after the
\* infoCols information columns spans an appearances and a goals cell
InflatedGoalsCell(infoCols, h) == infoCols + (h - infoCols) * 2 + 1

\* C27: a row read under two-sub-column inflation has the goals of the Total
\* header read from the cell infoCols + (h - infoCols) * 2 + 1, in the squad
\* appearances parser (a table with Apps and Goals sub-headers and no rank
\* column) and in the goalscorer table parser (a table whose first data row
\* has more than one and a half times as many cells as there are headers).
\* A squad appearances table that yields no scorer is read again by the
\* goalscorer table parser without inflation, and is left out here.
C27_InflatedGoalsCell ==
    /\ fn = "parseInflatedTable" /\ returned
    /\ \/ ~arg.subHeaders
       \/ ~arg.ranked /\ arg.league.goals + arg.cup.goals > 0
    => LET table == InflatedTable(arg)
           cells == table[Len(table)].cells
           goals == ParseDigits(CellAt(cells, InflatedGoalsCell(2, 4)))
       IN  res = IF goals > 0 THEN << [name |-> "P1", value |-> goals] >> ELSE <<>>


\* C28: every scraper run terminates: when every request is answered, a run
\* that has started reaches the snapshot write or the gate abort, also when
\* sources answer with redirects.
C28_EveryRunTerminates == Running ~> pc \in {"written", "aborted"}


----------------------------------------------------------------------------
(* Claims about the payouts as a whole *)

\* what a list of payout entries pays the participant: 0 when not listed
PaidTo(entries, participant) ==
    SumSeq([i \in 1..Len(entries) |->
               IF entries[i].participant = participant THEN entries[i].payout ELSE 0])

C30_ViewPayoutsMatchRules ==
    fn = "computePoolPayouts" /\ returned =>
        \A i \in 1..Len(arg[2]) :
            PaidTo(res.shown, PayoutNames[i]) = PaidTo(res.rules, PayoutNames[i])

====
